---------------------------- MODULE Spec2Model ----------------------------
(***************************************************************************)
(* A model of jlrickert/cli-toolkit: the jail path primitives              *)
(* (toolkit/jail/path.go), the jailed filesystem OsFS                      *)
(* (toolkit/filesystem/os_fs.go), the Runtime container with its TestEnv   *)
(* collaborator, and the Process / Pipeline harness (sandbox/process.go,   *)
(* sandbox/pipeline.go).                                                   *)
(*                                                                         *)
(* A path string is modelled by the sequence of its '/'-separated          *)
(* segments (strings.Split(s, "/")): "" is <<"">>, "/" is <<"", "">>,      *)
(* "/j/w" is <<"", "j", "w">>, "a//b/" is <<"a", "", "b", "">>.  The       *)
(* encoding is one-to-one, and s + "/" + t is the concatenation s \o t.    *)
(***************************************************************************)
EXTENDS Naturals, Sequences, FiniteSets, TLC

VARIABLES
    host,   \* the host filesystem: physical path -> node
    fs,     \* the OsFS value: [jail, wd]
    last,   \* the last call and what it returned
    nmut,   \* number of host-mutating calls made so far
    rt,     \* the Runtime value: [jail, wd]; its fs collaborator is fs
    env,    \* the TestEnv the runtime holds
    procs,  \* the Process values, in stage order
    pipes,  \* the io.Pipe pairs the processes created
    pl,     \* the Pipeline, or the caller that runs one process directly
    writer  \* the task that feeds a process with Process.Write and Close

fsvars == <<host, fs, last, nmut>>
rtvars == <<rt, env>>
pvars == <<procs, pipes, pl, writer>>
vars == <<host, fs, last, nmut, rt, env, procs, pipes, pl, writer>>

\* What a specification leaves alone holds this value.
Unused == <<>>

---------------------------------------------------------------------------
(* Bounds of the model. *)

\* Host-mutating calls (WriteFile, Mkdir, Remove, Rename, Symlink) per run.
MaxHostOps == 1
\* Longest working directory (in segments after the root) Setwd may commit.
MaxDepth == 1
\* Symlinks followed by one path walk before it gives up (ELOOP).
MaxLinkHops == 2
\* Longest working directory (in segments after the root) Runtime.Setwd may
\* commit.
MaxRtDepth == 3

---------------------------------------------------------------------------
(* Strings and paths. *)

EmptyStr == <<"">>
Blank == <<" ">>
Root == <<"", "">>
Dot == <<".">>

\* filepath.IsAbs on Unix: the string starts with '/'.
IsAbs(p) == Len(p) >= 2 /\ p[1] = ""

\* strings.TrimSpace(p) == "".
IsBlank(p) == Len(p) = 1 /\ p[1] \in {"", " "}

\* strings.HasPrefix(s, ".."), s one segment.
SegTails == {"", "d"}
HasDotDotPrefix(s) == \E t \in SegTails : s = ".." \o t

RECURSIVE CleanElems(_, _, _)
CleanElems(out, rest, rooted) ==
    IF rest = <<>> THEN out
    ELSE LET e == Head(rest)
             t == Tail(rest)
         IN  IF e = "" \/ e = "." THEN CleanElems(out, t, rooted)
             ELSE IF e = ".."
                  THEN IF out # <<>> /\ out[Len(out)] # ".."
                       THEN CleanElems(SubSeq(out, 1, Len(out) - 1), t, rooted)
                       ELSE IF rooted THEN CleanElems(out, t, rooted)
                            ELSE CleanElems(Append(out, ".."), t, rooted)
                  ELSE CleanElems(Append(out, e), t, rooted)

CleanOut(rooted, out) ==
    IF rooted THEN (IF out = <<>> THEN Root ELSE <<"">> \o out)
    ELSE IF out = <<>> THEN Dot ELSE out

\* filepath.Clean.
Clean(p) == CleanOut(IsAbs(p), CleanElems(<<>>, p, IsAbs(p)))

\* filepath.Join of two elements.
Join(a, b) ==
    IF a # EmptyStr THEN Clean(a \o b)
    ELSE IF b # EmptyStr THEN Clean(b)
    ELSE EmptyStr

\* The elements of a cleaned path: "/" has the one (empty) element before
\* its separator, "/a/b" has "", "a" and "b".
Elems(p) == IF p = Root THEN <<"">> ELSE p

RECURSIVE CommonLen(_, _)
CommonLen(a, b) ==
    IF a = <<>> \/ b = <<>> \/ Head(a) # Head(b) THEN 0
    ELSE 1 + CommonLen(Tail(a), Tail(b))

RelErr == [err |-> TRUE, path |-> EmptyStr]
RelOk(p) == [err |-> FALSE, path |-> p]

\* filepath.Rel once the common elements are dropped: one ".." for every
\* element left of the base, then what is left of the target.
RelRest(brest, trest) ==
    IF brest # <<>> /\ brest[1] = ".." THEN RelErr
    ELSE RelOk([i \in 1..Len(brest) |-> ".."] \o trest)

RelFrom(be, te, n) ==
    RelRest(SubSeq(be, n + 1, Len(be)), SubSeq(te, n + 1, Len(te)))

RelElems(be, te) == RelFrom(be, te, CommonLen(be, te))

RelClean(base, targ) ==
    IF targ = base THEN RelOk(Dot)
    ELSE IF (base # Dot /\ IsAbs(base)) # IsAbs(targ) THEN RelErr
    ELSE RelElems(IF base = Dot THEN <<>> ELSE Elems(base), Elems(targ))

\* filepath.Rel: [err, path].
Rel(basepath, targpath) == RelClean(Clean(basepath), Clean(targpath))

---------------------------------------------------------------------------
(* toolkit/jail/path.go *)

StripPrefix(p, r) == IF r.err THEN p ELSE Join(Root, r.path)

RemoveJailPrefixClean(j, p) ==
    IF j = EmptyStr THEN p ELSE StripPrefix(p, Rel(j, p))

RemoveJailPrefix(jailPath, path) ==
    RemoveJailPrefixClean(Clean(jailPath), Clean(path))

NoDotDotPrefix(r) == IF r.err THEN FALSE ELSE ~HasDotDotPrefix(r.path[1])

IsInJailClean(j, p) == IF ~IsAbs(p) THEN TRUE ELSE NoDotDotPrefix(Rel(j, p))

IsInJail(jailPath, rel) ==
    IF Clean(jailPath) = EmptyStr \/ jailPath = EmptyStr THEN TRUE
    ELSE IsInJailClean(Clean(jailPath), Clean(rel))

EnsureInJailClean(j, pp) ==
    IF IsInJail(j, pp) THEN pp
    ELSE IF ~IsAbs(pp) THEN Join(j, pp)
    ELSE Join(j, pp)

EnsureInJail(jailPath, p) ==
    IF jailPath = EmptyStr THEN p
    ELSE IF p = EmptyStr \/ p = Root THEN Clean(jailPath)
    ELSE EnsureInJailClean(Clean(jailPath), Clean(p))

---------------------------------------------------------------------------
(* The host: the operating system's filesystem and process state, as the   *)
(* os and path/filepath calls of the repository see them.                  *)

\* os.Getwd() of the test process.
ProcessCwd == <<"", "o">>

Node(t, c, to) == [t |-> t, c |-> c, to |-> to]
DirNode == Node("dir", "", EmptyStr)
FileNode(c) == Node("file", c, EmptyStr)
LinkNode(to) == Node("link", "", to)

\* A jail directory /j holding a directory, a file and two symlinks that
\* point out of it, as TestOsFS_ResolvePath_FollowSymlinkEscape_Jailed
\* builds with os.Symlink; /o is a directory outside the jail.  The jail
\* also holds a directory whose name starts with two dots, /j/..d, and a
\* symlink /j/m to it.
HostInit ==
    (Root :> DirNode)
    @@ (<<"", "j">> :> DirNode)
    @@ (<<"", "j", "w">> :> DirNode)
    @@ (<<"", "j", "f">> :> FileNode("in"))
    @@ (<<"", "j", "k">> :> LinkNode(<<"", "j", "w">>))
    @@ (<<"", "j", "l">> :> LinkNode(<<"", "o", "s">>))
    @@ (<<"", "j", "d">> :> LinkNode(<<"", "o">>))
    @@ (<<"", "j", "..d">> :> DirNode)
    @@ (<<"", "j", "m">> :> LinkNode(<<"", "j", "..d">>))
    @@ (<<"", "o">> :> DirNode)
    @@ (<<"", "o", "s">> :> FileNode("secret"))

\* filepath.Dir.
Dir(p) ==
    IF Len(p) = 1 THEN Dot ELSE Clean(SubSeq(p, 1, Len(p) - 1) \o <<"">>)

\* filepath.Base of a cleaned path.
Base(p) == IF p = Root THEN "/" ELSE p[Len(p)]

\* b is a or lies below a (both cleaned, absolute).
IsPrefixPath(a, b) ==
    LET ae == Elems(a)
        be == Elems(b)
    IN  Len(ae) <= Len(be) /\ SubSeq(be, 1, Len(ae)) = ae

Children(h, dir) == {q \in DOMAIN h : q # dir /\ Dir(q) = dir}

OsErr(e) == [err |-> e, path |-> <<>>]

\* The kernel's path walk: the physical path that the elements rest name
\* below the physical directory cur.  Symlinks in the middle are always
\* followed, the last one when followLast.  The last element may be missing.
RECURSIVE walk(_, _, _, _, _)
RECURSIVE walkElem(_, _, _, _, _, _)
RECURSIVE walkInto(_, _, _, _, _, _)
walk(h, cur, rest, followLast, fuel) ==
    IF rest = <<>> THEN [err |-> "", path |-> cur]
    ELSE walkElem(h, cur, Head(rest), Tail(rest), followLast, fuel)

walkElem(h, cur, e, t, followLast, fuel) ==
    IF e = "" \/ e = "." THEN walk(h, cur, t, followLast, fuel)
    ELSE IF cur \notin DOMAIN h THEN OsErr("ENOENT")
    ELSE IF h[cur].t # "dir" THEN OsErr("ENOTDIR")
    ELSE IF e = ".." THEN walk(h, Dir(cur), t, followLast, fuel)
    ELSE walkInto(h, cur, Join(cur, <<e>>), t, followLast, fuel)

walkInto(h, cur, next, t, followLast, fuel) ==
    IF next \in DOMAIN h /\ h[next].t = "link" /\ (t # <<>> \/ followLast)
    THEN IF fuel = 0 THEN OsErr("ELOOP")
         ELSE walk(h, IF IsAbs(h[next].to) THEN Root ELSE cur,
                   h[next].to \o t, followLast, fuel - 1)
    ELSE walk(h, next, t, followLast, fuel)

Walk(h, p, followLast) ==
    walk(h, IF IsAbs(p) THEN Root ELSE ProcessCwd, p, followLast, MaxLinkHops)

\* filepath.EvalSymlinks: every element must exist.
EvalSymlinks(h, p) ==
    LET r == Walk(h, p, TRUE)
    IN  IF r.err # "" THEN r
        ELSE IF r.path \notin DOMAIN h THEN OsErr("ENOENT")
        ELSE r

\* What an os call returns: its error, the host after it, the bytes or the
\* kind it read, and the physical paths it read or wrote.
OsRes(e, h, d, touched) == [err |-> e, host |-> h, data |-> d, touched |-> touched]

osReadFile(h, p) ==
    LET r == Walk(h, p, TRUE)
    IN  IF r.err # "" THEN OsRes(r.err, h, "", {})
        ELSE IF r.path \notin DOMAIN h THEN OsRes("ENOENT", h, "", {})
        ELSE IF h[r.path].t # "file" THEN OsRes("EISDIR", h, "", {})
        ELSE OsRes("", h, h[r.path].c, {r.path})

osWriteFile(h, p, data) ==
    LET r == Walk(h, p, TRUE)
    IN  IF r.err # "" THEN OsRes(r.err, h, "", {})
        ELSE IF r.path \in DOMAIN h /\ h[r.path].t # "file" THEN OsRes("EISDIR", h, "", {})
        ELSE OsRes("", (r.path :> FileNode(data)) @@ h, "", {r.path})

osMkdir(h, p) ==
    LET r == Walk(h, p, FALSE)
    IN  IF r.err # "" THEN OsRes(r.err, h, "", {})
        ELSE IF r.path \in DOMAIN h THEN OsRes("EEXIST", h, "", {})
        ELSE OsRes("", (r.path :> DirNode) @@ h, "", {r.path})

\* os.MkdirAll: every missing directory on the way is created.
RECURSIVE mkdirAll(_, _, _, _)
RECURSIVE mkdirAt(_, _, _, _, _)
mkdirAll(h, p, n, made) ==
    IF n > Len(p) THEN OsRes("", h, "", made)
    ELSE mkdirAt(h, p, n, made, Walk(h, Clean(SubSeq(p, 1, n) \o <<"">>), TRUE))

mkdirAt(h, p, n, made, r) ==
    IF r.err # "" THEN OsRes(r.err, h, "", made)
    ELSE IF r.path \in DOMAIN h
         THEN IF h[r.path].t = "dir" THEN mkdirAll(h, p, n + 1, made)
              ELSE OsRes("ENOTDIR", h, "", made)
         ELSE mkdirAll((r.path :> DirNode) @@ h, p, n + 1, made \cup {r.path})

osMkdirAll(h, p) == mkdirAll(h, p, 2, {})

Without(h, gone) == [q \in DOMAIN h \ gone |-> h[q]]

Subtree(h, top) == {q \in DOMAIN h : IsPrefixPath(top, q)}

osRemove(h, p) ==
    LET r == Walk(h, p, FALSE)
    IN  IF r.err # "" THEN OsRes(r.err, h, "", {})
        ELSE IF r.path \notin DOMAIN h THEN OsRes("ENOENT", h, "", {})
        ELSE IF Children(h, r.path) # {} THEN OsRes("ENOTEMPTY", h, "", {})
        ELSE OsRes("", Without(h, {r.path}), "", {r.path})

removeAllAt(h, r) ==
    IF r.err = "ENOENT" THEN OsRes("", h, "", {})
    ELSE IF r.err # "" THEN OsRes(r.err, h, "", {})
    ELSE OsRes("", Without(h, Subtree(h, r.path)), "", Subtree(h, r.path))

osRemoveAll(h, p) == removeAllAt(h, Walk(h, p, FALSE))

\* q, a path at or below from, moved to the same place at or below to.
Rebase(from, to, q) ==
    Join(to, SubSeq(Elems(q), Len(Elems(from)) + 1, Len(Elems(q))) \o <<"">>)

\* The host after the subtree at from replaced the one at to.
MoveTree(h, from, to) ==
    [q \in (DOMAIN h \ (Subtree(h, from) \cup Subtree(h, to)))
              \cup {Rebase(from, to, m) : m \in Subtree(h, from)} |->
        IF \E m \in Subtree(h, from) : Rebase(from, to, m) = q
        THEN h[CHOOSE m \in Subtree(h, from) : Rebase(from, to, m) = q]
        ELSE h[q]]

renameAt(h, rs, rd) ==
    IF rs.err # "" THEN OsRes(rs.err, h, "", {})
    ELSE IF rd.err # "" THEN OsRes(rd.err, h, "", {})
    ELSE IF rs.path \notin DOMAIN h THEN OsRes("ENOENT", h, "", {})
    ELSE IF rs.path = rd.path THEN OsRes("", h, "", {rs.path})
    ELSE IF IsPrefixPath(rs.path, rd.path) THEN OsRes("EINVAL", h, "", {})
    ELSE IF rd.path \in DOMAIN h /\ h[rs.path].t = "dir" /\ h[rd.path].t # "dir"
         THEN OsRes("ENOTDIR", h, "", {})
    ELSE IF rd.path \in DOMAIN h /\ h[rs.path].t # "dir" /\ h[rd.path].t = "dir"
         THEN OsRes("EISDIR", h, "", {})
    ELSE IF rd.path \in DOMAIN h /\ Children(h, rd.path) # {}
         THEN OsRes("ENOTEMPTY", h, "", {})
    ELSE OsRes("", MoveTree(h, rs.path, rd.path), "", {rs.path, rd.path})

osRename(h, src, dst) == renameAt(h, Walk(h, src, FALSE), Walk(h, dst, FALSE))

\* os.Stat (follow) and os.Lstat: the kind of the node.
osStat(h, p, follow) ==
    LET r == Walk(h, p, follow)
    IN  IF r.err # "" THEN OsRes(r.err, h, "", {})
        ELSE IF r.path \notin DOMAIN h THEN OsRes("ENOENT", h, "", {})
        ELSE OsRes("", h, h[r.path].t, {r.path})

osReadDir(h, p) ==
    LET r == Walk(h, p, TRUE)
    IN  IF r.err # "" THEN OsRes(r.err, h, "", {})
        ELSE IF r.path \notin DOMAIN h THEN OsRes("ENOENT", h, "", {})
        ELSE IF h[r.path].t # "dir" THEN OsRes("ENOTDIR", h, "", {})
        ELSE OsRes("", h, "dir", {r.path})

osSymlink(h, oldname, newname) ==
    LET r == Walk(h, newname, FALSE)
    IN  IF r.err # "" THEN OsRes(r.err, h, "", {})
        ELSE IF r.path \in DOMAIN h THEN OsRes("EEXIST", h, "", {})
        ELSE OsRes("", (r.path :> LinkNode(oldname)) @@ h, "", {r.path})

---------------------------------------------------------------------------
(* toolkit/filesystem/os_fs.go: OsFS.  The value is [jail, wd]; a call     *)
(* returns the OsFS after it together with its error and its result.       *)

ErrEscapeAttempt == "ErrEscapeAttempt"
NoPath == <<>>

\* &OsFS{}.
ZeroOsFS == [jail |-> EmptyStr, wd |-> EmptyStr]

ensureInitializedLocked(f) ==
    IF ~IsBlank(f.wd) THEN f
    ELSE IF ~IsBlank(f.jail) THEN [f EXCEPT !.wd = Root]
    ELSE [f EXCEPT !.wd = Clean(ProcessCwd)]

FsRes(f, e, v) == [fs |-> f, err |-> e, val |-> v]

\* The argument made absolute against the working directory and cleaned.
Absolute(wd, path) == IF ~IsAbs(path) THEN Join(wd, path) ELSE path

\* The argument neither made absolute nor cleaned.
VirtualAsGiven(wd, path) == IF IsBlank(path) \/ path = Dot THEN wd ELSE path

Virtual(wd, path) ==
    Clean(Absolute(wd, IF IsBlank(path) \/ path = Dot THEN wd ELSE path))

\* Without a jail: the result of filepath.EvalSymlinks, cleaned.
evalUnjailed(g, ev) ==
    IF ev.err # "" THEN FsRes(g, ev.err, NoPath)
    ELSE FsRes(g, "", Clean(ev.path))

\* With a jail: the resolved host path is validated again and translated
\* back to a virtual path.
evalJailed(g, ev) ==
    IF ev.err # "" THEN FsRes(g, ev.err, NoPath)
    ELSE IF ~IsInJail(g.jail, ev.path) THEN FsRes(g, ErrEscapeAttempt, NoPath)
    ELSE FsRes(g, "", Clean(RemoveJailPrefix(g.jail, ev.path)))

\* The host path returned in place of the virtual one.
resolveJailedHost(h, g, virtual, hostp, followSymlinks) ==
    IF ~IsInJail(g.jail, hostp) THEN FsRes(g, ErrEscapeAttempt, NoPath)
    ELSE IF ~followSymlinks THEN FsRes(g, "", hostp)
    ELSE evalJailed(g, EvalSymlinks(h, hostp))

resolveJailed(h, g, virtual, hostp, followSymlinks) ==
    IF ~IsInJail(g.jail, hostp) THEN FsRes(g, ErrEscapeAttempt, NoPath)
    ELSE IF ~followSymlinks THEN FsRes(g, "", virtual)
    ELSE evalJailed(g, EvalSymlinks(h, hostp))

resolveClean(h, g, virtual, followSymlinks) ==
    IF g.jail = EmptyStr
    THEN IF ~followSymlinks THEN FsRes(g, "", virtual)
         ELSE evalUnjailed(g, EvalSymlinks(h, virtual))
    ELSE resolveJailed(h, g, virtual, Clean(Join(g.jail, virtual)), followSymlinks)

resolveInitialized(h, g, path, followSymlinks) ==
    resolveClean(h, g, Virtual(IF g.wd = EmptyStr THEN Root ELSE g.wd, path),
                 followSymlinks)

resolveVirtual(h, f, path, followSymlinks) ==
    resolveInitialized(h, ensureInitializedLocked(f), path, followSymlinks)

hostPath(f, path) ==
    IF f.jail = EmptyStr THEN Clean(path) ELSE Clean(Join(f.jail, path))

toHost(r) == IF r.err # "" THEN r ELSE FsRes(r.fs, "", hostPath(r.fs, r.val))

resolveHost(h, f, path, followSymlinks) ==
    toHost(resolveVirtual(h, f, path, followSymlinks))

OsFS_SetJail(f, jailPath) ==
    IF IsBlank(jailPath) THEN [f EXCEPT !.jail = EmptyStr]
    ELSE [f EXCEPT !.jail = Clean(jailPath)]

getwdInitialized(g) == FsRes(g, "", g.wd)

OsFS_Getwd(f) == getwdInitialized(ensureInitializedLocked(f))

\* [fs, err, val, touched]: touched is what os.Stat looked at.
SetwdRes(f, e, v, touched) == [fs |-> f, err |-> e, val |-> v, touched |-> touched]

\* A Setwd that commits whatever os.Stat found.
setwdStatAny(r, st) == SetwdRes([r.fs EXCEPT !.wd = r.val], "", r.val, st.touched)

setwdStat(r, st) ==
    IF st.err # "" /\ st.err # "ENOENT" THEN SetwdRes(r.fs, st.err, NoPath, {})
    ELSE IF st.err = "" /\ st.data # "dir"
         THEN SetwdRes(r.fs, "not a directory", NoPath, st.touched)
    ELSE SetwdRes([r.fs EXCEPT !.wd = r.val], "", r.val, st.touched)

setwdResolved(h, r) ==
    IF r.err # "" THEN SetwdRes(r.fs, r.err, NoPath, {})
    ELSE setwdStat(r, osStat(h, hostPath(r.fs, r.val), TRUE))

OsFS_Setwd(h, f, path) == setwdResolved(h, resolveVirtual(h, f, path, FALSE))

newOsFSResolved(f, r) ==
    IF r.err # "" THEN FsRes(f, r.err, NoPath)
    ELSE FsRes([r.fs EXCEPT !.wd = r.val], "", r.val)

newOsFSJailed(h, f, wd) ==
    newOsFSResolved(f, resolveVirtual(h, f,
        IF ~IsBlank(wd) THEN wd ELSE IF IsBlank(f.jail) THEN ProcessCwd ELSE Root,
        FALSE))

NewOsFS(h, jailPath, wd) == newOsFSJailed(h, OsFS_SetJail(ZeroOsFS, jailPath), wd)

---------------------------------------------------------------------------
(* TestEnv.  The value is [jail, home, user, pwd, tmp, data]; pwd and tmp  *)
(* are the PWD and TMPDIR entries of its map, data the other entries.      *)

\* cleanJail of the env and of the toolkit package.
cleanJail(jail) == IF IsBlank(jail) THEN EmptyStr ELSE Clean(jail)

\* Keys a caller sets with Set, and the values it gives them.
EnvKeys == {"K"}
EnvValues == {<<"a">>, <<"b">>}

NoData == [k \in EnvKeys |-> EmptyStr]

testEnvAt(jailPath, home, user, cwd) ==
    [jail |-> jailPath, home |-> home, user |-> user, pwd |-> cwd,
     tmp |-> Join(jailPath, <<"tmp">>), data |-> NoData]

newTestEnvFor(jailPath, home, user) ==
    IF home = EmptyStr /\ user = "root"
    THEN testEnvAt(jailPath, Join(Root, <<".root">>), user, Root)
    ELSE IF home = EmptyStr
         THEN testEnvAt(jailPath, Join(Root, <<"home", user>>), user,
                        Join(Root, <<"home", user>>))
    ELSE testEnvAt(jailPath, home, user, home)

NewTestEnv(jailPath, home, username) ==
    newTestEnvFor(jailPath, home, IF username = "" THEN "testuser" ELSE username)

\* A path kept under the old jail, moved under the new one.
Rejail(oldJail, newJail, p) ==
    IF newJail = EmptyStr THEN Clean(RemoveJailPrefix(oldJail, p))
    ELSE Join(newJail, RemoveJailPrefix(oldJail, p))

testEnvSetJail(e, oldJail, newJail) ==
    [e EXCEPT !.jail = newJail,
              !.home = IF e.home # EmptyStr THEN Rejail(oldJail, newJail, e.home)
                       ELSE e.home,
              !.tmp = IF e.tmp # EmptyStr /\ oldJail # EmptyStr /\ IsInJail(oldJail, e.tmp)
                      THEN Rejail(oldJail, newJail, e.tmp)
                      ELSE e.tmp]

TestEnv_SetJail(e, jailPath) == testEnvSetJail(e, e.jail, cleanJail(jailPath))

EnvRes(e, err, v) == [env |-> e, err |-> err, val |-> v]

TestEnv_GetHome(e) ==
    IF e.home = EmptyStr THEN EnvRes(e, "home not set", EmptyStr)
    ELSE EnvRes(e, "", RemoveJailPrefix(e.jail, e.home))

TestEnv_Getwd(e) ==
    IF e.pwd # EmptyStr THEN EnvRes(e, "", e.pwd)
    ELSE EnvRes(e, "working directory not set", NoPath)

TestEnv_Get(e, key) ==
    IF key = "HOME" THEN e.home
    ELSE IF key = "USER" THEN <<e.user>>
    ELSE IF key = "PWD" THEN e.pwd
    ELSE IF key = "TMPDIR" THEN e.tmp
    ELSE IF key \in EnvKeys THEN e.data[key]
    ELSE EmptyStr

\* "~" and "~/rest" name the home; the error of GetHome is dropped.
TestEnv_ExpandPath(e, p) ==
    IF p = EmptyStr THEN p
    ELSE IF p[1] # "~" THEN p
    ELSE IF Len(p) = 1 THEN Clean(TestEnv_GetHome(e).val)
    ELSE Join(TestEnv_GetHome(e).val, Tail(p))

testEnvJoinWd(e, g, expanded) ==
    IF g.err # "" THEN g ELSE EnvRes(e, "", Clean(Join(g.val, expanded)))

testEnvResolve(e, expanded) ==
    IF IsAbs(expanded) THEN EnvRes(e, "", Clean(expanded))
    ELSE testEnvJoinWd(e, TestEnv_Getwd(e), expanded)

\* TestEnv.ResolvePath(rel, false).
TestEnv_ResolvePath(e, rel) ==
    IF Clean(rel) = Dot \/ Clean(rel) = EmptyStr THEN TestEnv_Getwd(e)
    ELSE testEnvResolve(e, TestEnv_ExpandPath(e, rel))

testEnvSetwdTo(e, r) ==
    IF r.err # "" THEN r ELSE EnvRes([e EXCEPT !.pwd = r.val], "", NoPath)

TestEnv_Setwd(e, dir) == testEnvSetwdTo(e, TestEnv_ResolvePath(e, dir))

---------------------------------------------------------------------------
(* toolkit/env/os_env.go: OsEnv, the environment of the process.  The      *)
(* value has the fields of a TestEnv and the field os; pwd is the working  *)
(* directory of the process, home is $HOME.  A runtime keeps the working   *)
(* directory of its OsFS set, so the OsFS never asks the process for it.   *)

\* $HOME of the process.
OsHome == <<"", "o">>

\* &OsEnv{}.
NewOsEnv ==
    [os |-> TRUE, jail |-> EmptyStr, home |-> OsHome, user |-> "u",
     pwd |-> ProcessCwd, tmp |-> <<"", "tmp">>, data |-> NoData]

IsOsEnv(e) == "os" \in DOMAIN e

\* filepath.Abs against the working directory of the process.
Abs(cwd, p) == IF IsAbs(p) THEN Clean(p) ELSE Join(cwd, p)

\* os.Chdir: the path must name a directory.
osChdir(h, p) ==
    LET r == Walk(h, p, TRUE)
    IN  IF r.err # "" THEN r
        ELSE IF r.path \notin DOMAIN h THEN OsErr("ENOENT")
        ELSE IF h[r.path].t # "dir" THEN OsErr("ENOTDIR")
        ELSE r

osEnvChdir(e, r) ==
    IF r.err # "" THEN EnvRes(e, r.err, NoPath)
    ELSE EnvRes([e EXCEPT !.pwd = r.path], "", NoPath)

OsEnv_Setwd(h, e, dir) == osEnvChdir(e, osChdir(h, Abs(e.pwd, dir)))

OsEnv_SetJail(e, jailPath) == [e EXCEPT !.jail = cleanJail(jailPath)]

\* os.Getenv: os.Chdir leaves PWD as the process was started with it.
OsEnv_Get(e, key) == IF key = "PWD" THEN ProcessCwd ELSE TestEnv_Get(e, key)

\* The methods of the Env a runtime holds.
Env_Setwd(h, e, dir) ==
    IF IsOsEnv(e) THEN OsEnv_Setwd(h, e, dir) ELSE TestEnv_Setwd(e, dir)

Env_SetJail(e, jailPath) ==
    IF IsOsEnv(e) THEN OsEnv_SetJail(e, jailPath) ELSE TestEnv_SetJail(e, jailPath)

Env_GetHome(e) == IF IsOsEnv(e) THEN EnvRes(e, "", e.home) ELSE TestEnv_GetHome(e)

Env_Get(e, key) == IF IsOsEnv(e) THEN OsEnv_Get(e, key) ELSE TestEnv_Get(e, key)

Env_Getwd(e) == IF IsOsEnv(e) THEN EnvRes(e, "", e.pwd) ELSE TestEnv_Getwd(e)

---------------------------------------------------------------------------
(* Runtime.  A world is the runtime with its two collaborators, and what   *)
(* the call under way returned: [rt, env, fs, err, val].                   *)

World(r, e, f) == [rt |-> r, env |-> e, fs |-> f, err |-> "", val |-> NoPath]

Fail(w, e) == [w EXCEPT !.err = e, !.val = NoPath]

normalizePath(path) == IF IsBlank(path) THEN Root ELSE Clean(path)

\* os.Expand(s, env.Get) on the references a path argument may hold: a
\* segment that is one reference is replaced by the value.
EnvRefs == ("$HOME" :> "HOME") @@ ("$PWD" :> "PWD") @@ ("$K" :> "K")

RECURSIVE ExpandSegs(_, _, _)
ExpandSegs(e, done, rest) ==
    IF rest = <<>> THEN done
    ELSE IF Head(rest) \in DOMAIN EnvRefs
         THEN ExpandSegs(e, done \o Env_Get(e, EnvRefs[Head(rest)]), Tail(rest))
         ELSE ExpandSegs(e, Append(done, Head(rest)), Tail(rest))

ExpandEnv(w, s) == ExpandSegs(w.env, <<>>, s)

expandHome(p, home) ==
    IF home.err # "" THEN [err |-> home.err, val |-> EmptyStr]
    ELSE IF Len(p) = 1 THEN [err |-> "", val |-> Clean(home.val)]
    ELSE [err |-> "", val |-> Join(home.val, Tail(p))]

\* toolkit.ExpandPath(rt, p); rt.GetHome is env.GetHome.
ExpandPath(w, p) ==
    IF p = EmptyStr THEN [err |-> "", val |-> p]
    ELSE IF p[1] # "~" THEN [err |-> "", val |-> p]
    ELSE expandHome(p, Env_GetHome(w.env))

applyDone(w, target, g) ==
    [w EXCEPT !.fs = g.fs,
              !.rt.wd = IF g.err = "" /\ ~IsBlank(g.val) THEN Clean(g.val) ELSE target,
              !.err = "", !.val = NoPath]

applyEnv(w, target, e) ==
    IF e.err # "" THEN Fail(w, e.err)
    ELSE applyDone([w EXCEPT !.env = e.env], target, OsFS_Getwd(w.fs))

applyFs(h, w, target, r) ==
    IF r.err # "" THEN Fail([w EXCEPT !.fs = r.fs], r.err)
    ELSE applyEnv([w EXCEPT !.fs = r.fs], target, Env_Setwd(h, w.env, target))

applyTarget(h, w, target) == applyFs(h, w, target, OsFS_Setwd(h, w.fs, target))

applyWorkingDir(h, w, dir) == applyTarget(h, w, normalizePath(dir))

\* The jail a runtime built without one takes from its collaborators.
inheritedJail(w) ==
    IF w.rt.jail # EmptyStr THEN w.rt.jail
    ELSE IF cleanJail(w.env.jail) # EmptyStr THEN cleanJail(w.env.jail)
    ELSE cleanJail(w.fs.jail)

pushJail(w, j) ==
    [w EXCEPT !.rt.jail = j, !.fs = OsFS_SetJail(w.fs, j),
              !.env = Env_SetJail(w.env, j)]

wdFromFs(w, g) ==
    [w EXCEPT !.fs = g.fs,
              !.rt.wd = IF g.err = "" /\ ~IsBlank(g.val) THEN Clean(g.val) ELSE Root]

wdFromEnv(w, c) ==
    IF c.err = "" /\ ~IsBlank(c.val) THEN [w EXCEPT !.rt.wd = Clean(c.val)]
    ELSE wdFromFs(w, OsFS_Getwd(w.fs))

inheritedWd(w) == IF ~IsBlank(w.rt.wd) THEN w ELSE wdFromEnv(w, Env_Getwd(w.env))

normalizeApply(h, w) == applyWorkingDir(h, w, w.rt.wd)

normalizeState(h, w) == normalizeApply(h, inheritedWd(pushJail(w, inheritedJail(w))))

\* NewRuntime(WithRuntimeEnv(e), WithRuntimeFileSystem(f), WithRuntimeJail(jail)).
NewRuntime(h, e, f, jail) ==
    normalizeState(h, World([jail |-> cleanJail(jail), wd |-> EmptyStr], e, f))

Runtime_Getwd(h, w) ==
    IF IsBlank(w.rt.wd) THEN normalizeState(h, w) ELSE [w EXCEPT !.val = w.rt.wd]

getwdVal(w) == IF w.err # "" THEN w ELSE [w EXCEPT !.val = w.rt.wd]

Runtime_GetwdVal(h, w) == getwdVal(Runtime_Getwd(h, w))

setJailFallback(first, fallback) ==
    IF fallback.err # "" THEN Fail(fallback, first.err) ELSE fallback

setJailApplied(h, first) ==
    IF first.err = "" THEN first
    ELSE setJailFallback(first, applyWorkingDir(h, [first EXCEPT !.err = ""], Root))

setJailPushed(h, w) ==
    setJailApplied(h, applyWorkingDir(h, w, IF IsBlank(w.rt.wd) THEN Root ELSE w.rt.wd))

Runtime_SetJail(h, w, jail) == setJailPushed(h, pushJail(w, cleanJail(jail)))

rwdDone(w, r) ==
    IF r.err # "" THEN Fail([w EXCEPT !.fs = r.fs], r.err)
    ELSE [w EXCEPT !.fs = r.fs, !.val = Clean(r.val)]

rwdResolve(h, w, p) == rwdDone(w, resolveVirtual(h, w.fs, Clean(p), FALSE))

rwdJoin(h, g, p) == IF g.err # "" THEN g ELSE rwdResolve(h, g, Join(g.val, p))

rwdExpanded(h, w, x) ==
    IF x.err # "" THEN Fail(w, x.err)
    ELSE IF IsAbs(x.val) THEN rwdResolve(h, w, x.val)
    ELSE rwdJoin(h, Runtime_GetwdVal(h, w), x.val)

resolveWorkingDir(h, w, dir) ==
    IF IsBlank(dir) \/ dir = Dot THEN Runtime_GetwdVal(h, w)
    ELSE rwdExpanded(h, w, ExpandPath(w, ExpandEnv(w, dir)))

setwdApply(h, r) == IF r.err # "" THEN r ELSE applyWorkingDir(h, r, r.val)

Runtime_Setwd(h, w, dir) == setwdApply(h, resolveWorkingDir(h, w, dir))

\* Runtime.ResolvePath: the working directory for a blank argument or ".",
\* else the argument expanded and joined with the working directory; the
\* filesystem resolves the cleaned path.
rpDone(w, r) ==
    IF r.err # "" THEN Fail([w EXCEPT !.fs = r.fs], r.err)
    ELSE [w EXCEPT !.fs = r.fs, !.val = r.val]

rpResolve(h, w, p, follow) == rpDone(w, resolveVirtual(h, w.fs, Clean(p), follow))

rpCwd(h, g, follow) == IF g.err # "" THEN g ELSE rpResolve(h, g, g.val, follow)

rpJoin(h, g, p, follow) ==
    IF g.err # "" THEN g ELSE rpResolve(h, g, Join(g.val, p), follow)

rpExpanded(h, w, x, follow) ==
    IF x.err # "" THEN Fail(w, x.err)
    ELSE IF IsAbs(x.val) THEN rpResolve(h, w, x.val, follow)
    ELSE rpJoin(h, Runtime_GetwdVal(h, w), x.val, follow)

Runtime_ResolvePath(h, w, rel, follow) ==
    IF IsBlank(rel) \/ rel = Dot THEN rpCwd(h, Runtime_GetwdVal(h, w), follow)
    ELSE rpExpanded(h, w, ExpandPath(w, ExpandEnv(w, rel)), follow)

\* rt.FS().ResolvePath(path, follow).
Runtime_FsResolvePath(h, w, path, follow) ==
    rpDone(w, resolveVirtual(h, w.fs, path, follow))

---------------------------------------------------------------------------
(* Calls on one OsFS over the host. *)

\* Jail roots given to SetJail and NewOsFS: none, blank, /j, and /j/.
JailInputs == {EmptyStr, Blank, <<"", "j">>, <<"", "j", "">>}

\* Path arguments, per call: "" is the working directory, "w" is relative,
\* /f a file, /w a directory, /k a symlink to /w, /l a symlink to the file
\* /o/s outside the jail, /d a symlink to the directory /o outside the jail,
\* /m a symlink to the directory /..d, /n does not exist, /f/x lies below
\* a file.
ResolveInputs == {EmptyStr, <<"w">>, <<"..">>, <<"", "l">>, <<"", "k">>, <<"", "m">>}
SetwdInputs ==
    {EmptyStr, <<"w">>, <<"..">>, <<"", "d">>, <<"", "l">>, <<"", "n">>,
     <<"", "f", "x">>}
ReadInputs == {<<"", "f">>, <<"", "l">>, <<"", "d", "s">>, <<"", "n">>}
StatInputs == {<<"", "l">>, <<"", "k">>}
ReadDirInputs == {EmptyStr, <<"", "d">>}
WriteInputs == {<<"", "n">>, <<"", "l">>}
MkdirInputs == {<<"", "d", "n">>}
RemoveInputs == {<<"", "d", "s">>}
FromInputs == {<<"", "f">>}
ToInputs == {<<"", "d", "n">>}

\* The record of a call: its name, the jail and working directory it ran
\* with, its error, the path or bytes it returned, and the physical host
\* paths it read or wrote.
Call(op, f, e, path, data, touched) ==
    [op |-> op, jail |-> f.jail, wd0 |-> ensureInitializedLocked(f).wd,
     err |-> e, path |-> path, data |-> data, touched |-> touched]

NoCall == Call("", ZeroOsFS, "", NoPath, "", {})

\* A call that resolves path to a host path and hands it to one os call.
HostRan(op, o) ==
    /\ host' = o.host
    /\ last' = Call(op, fs, o.err, NoPath, o.data, o.touched)

HostFailed(op, e) ==
    /\ host' = host
    /\ last' = Call(op, fs, e, NoPath, "", {})

HostResolved(op, r, oscall(_, _)) ==
    /\ fs' = r.fs
    /\ UNCHANGED <<rtvars, pvars>>
    /\ IF r.err # "" THEN HostFailed(op, r.err)
       ELSE HostRan(op, oscall(host, r.val))

HostCall(op, path, oscall(_, _)) ==
    HostResolved(op, resolveHost(host, fs, path, FALSE), oscall)

\* A call that resolves two paths and hands them to one os call.
HostResolved2(op, ra, rb, oscall(_, _, _)) ==
    /\ fs' = ra.fs
    /\ UNCHANGED <<rtvars, pvars>>
    /\ IF ra.err # "" THEN HostFailed(op, ra.err)
       ELSE IF rb.err # "" THEN HostFailed(op, rb.err)
       ELSE HostRan(op, oscall(host, ra.val, rb.val))

HostSecond(op, ra, b, oscall(_, _, _)) ==
    HostResolved2(op, ra, resolveHost(host, ra.fs, b, FALSE), oscall)

HostCall2(op, a, b, oscall(_, _, _)) ==
    HostSecond(op, resolveHost(host, fs, a, FALSE), b, oscall)

SetJail(j) ==
    /\ fs' = OsFS_SetJail(fs, j)
    /\ last' = Call("SetJail", fs', "", NoPath, "", {})
    /\ UNCHANGED <<host, nmut, rt, env, pvars>>

GetwdDone(r) ==
    /\ fs' = r.fs
    /\ last' = Call("Getwd", fs, r.err, r.val, "", {})
    /\ UNCHANGED <<host, nmut, rt, env, pvars>>

Getwd == GetwdDone(OsFS_Getwd(fs))

SetwdDone(r) ==
    /\ Len(r.fs.wd) - 1 <= MaxDepth
    /\ fs' = r.fs
    /\ last' = Call("Setwd", fs, r.err, r.val, "", r.touched)
    /\ UNCHANGED <<host, nmut, rt, env, pvars>>

Setwd(p) == SetwdDone(OsFS_Setwd(host, fs, p))

\* What filepath.EvalSymlinks looked at, when it was called and found it.
Evaluated(follow, ev) == IF follow /\ ev.err = "" THEN {ev.path} ELSE {}

EvalTarget(h, r) ==
    IF r.err # "" THEN OsErr(r.err) ELSE EvalSymlinks(h, hostPath(r.fs, r.val))

ResolvePathDone(r, follow, touched) ==
    /\ fs' = r.fs
    /\ last' = Call(IF follow THEN "ResolvePathFollow" ELSE "ResolvePath",
                    fs, r.err, r.val, "", touched)
    /\ UNCHANGED <<host, nmut, rt, env, pvars>>

ResolvePath(p, follow) ==
    ResolvePathDone(resolveVirtual(host, fs, p, follow), follow,
                    Evaluated(follow, EvalTarget(host, resolveVirtual(host, fs, p, FALSE))))

ReadFile(p) ==
    /\ HostCall("ReadFile", p, osReadFile)
    /\ UNCHANGED nmut

osWriteNew(h, p) == osWriteFile(h, p, "new")

WriteFile(p) ==
    /\ nmut < MaxHostOps
    /\ nmut' = nmut + 1
    /\ HostCall("WriteFile", p, osWriteNew)

Mkdir(p, all) ==
    /\ nmut < MaxHostOps
    /\ nmut' = nmut + 1
    /\ IF all THEN HostCall("MkdirAll", p, osMkdirAll)
       ELSE HostCall("Mkdir", p, osMkdir)

Remove(p, all) ==
    /\ nmut < MaxHostOps
    /\ nmut' = nmut + 1
    /\ IF all THEN HostCall("RemoveAll", p, osRemoveAll)
       ELSE HostCall("Remove", p, osRemove)

Rename(src, dst) ==
    /\ nmut < MaxHostOps
    /\ nmut' = nmut + 1
    /\ HostCall2("Rename", src, dst, osRename)

osStatFollow(h, p) == osStat(h, p, TRUE)
osLstat(h, p) == osStat(h, p, FALSE)

Stat(p, follow) ==
    /\ IF follow THEN HostCall("Stat", p, osStatFollow)
       ELSE HostCall("Lstat", p, osLstat)
    /\ UNCHANGED nmut

ReadDir(p) ==
    /\ HostCall("ReadDir", p, osReadDir)
    /\ UNCHANGED nmut

Symlink(oldname, newname) ==
    /\ nmut < MaxHostOps
    /\ nmut' = nmut + 1
    /\ HostCall2("Symlink", oldname, newname, osSymlink)

Init ==
    /\ host = HostInit
    /\ fs \in {ZeroOsFS} \cup
              {NewOsFS(HostInit, j, w).fs : j \in JailInputs, w \in {EmptyStr, <<"w">>}}
    /\ last = NoCall
    /\ nmut = 0
    /\ rt = Unused
    /\ env = Unused
    /\ procs = Unused
    /\ pipes = Unused
    /\ pl = Unused
    /\ writer = Unused

Next ==
    \/ \E j \in JailInputs : SetJail(j)
    \/ Getwd
    \/ \E p \in SetwdInputs : Setwd(p)
    \/ \E p \in ResolveInputs, follow \in BOOLEAN : ResolvePath(p, follow)
    \/ \E p \in ReadInputs : ReadFile(p)
    \/ \E p \in WriteInputs : WriteFile(p)
    \/ \E p \in MkdirInputs, all \in BOOLEAN : Mkdir(p, all)
    \/ \E p \in RemoveInputs, all \in BOOLEAN : Remove(p, all)
    \/ \E src \in FromInputs, dst \in ToInputs : Rename(src, dst)
    \/ \E p \in StatInputs, follow \in BOOLEAN : Stat(p, follow)
    \/ \E p \in ReadDirInputs : ReadDir(p)
    \/ \E oldname \in FromInputs, newname \in ToInputs : Symlink(oldname, newname)

Spec == Init /\ [][Next]_vars

---------------------------------------------------------------------------
(* Calls on one Runtime that holds a TestEnv and an OsFS. *)

\* Arguments of NewTestEnv: the home "" (the default /home/<user>), the
\* directory /w, and the relative home/alice; the user "" (testuser) or root.
HomeInputs == {EmptyStr, <<"", "w">>, <<"home", "alice">>}
UserInputs == {"", "root"}

\* Arguments of Runtime.Setwd: "", "w", "..", "~", "/f" (a file), "/d" (a
\* symlink to a directory), "$HOME", "/n" (missing).
DirInputs ==
    {EmptyStr, <<"w">>, <<"..">>, <<"~">>, <<"", "f">>, <<"", "d">>,
     <<"$HOME">>, <<"", "n">>}

\* The record of a call on the runtime: its name, its error, the path it
\* returned, and the working directories the three reported before it.
RtCall(op, w) ==
    [op |-> op, err |-> w.err, val |-> w.val,
     rtwd0 |-> IF rt = Unused THEN NoPath ELSE rt.wd,
     fswd0 |-> IF rt = Unused THEN NoPath ELSE fs.wd,
     envwd0 |-> IF rt = Unused THEN NoPath ELSE env.pwd]

RtCommit(op, w) ==
    /\ Len(w.rt.wd) - 1 <= MaxRtDepth
    /\ rt' = w.rt
    /\ env' = w.env
    /\ fs' = w.fs
    /\ last' = RtCall(op, w)
    /\ UNCHANGED <<host, nmut, pvars>>

RtSetJail(j) == RtCommit("SetJail", Runtime_SetJail(host, World(rt, env, fs), j))

RtSetwd(dir) == RtCommit("Setwd", Runtime_Setwd(host, World(rt, env, fs), dir))

RtGetwd == RtCommit("Getwd", Runtime_GetwdVal(host, World(rt, env, fs)))

\* A relative path with more ".." than a working directory has components.
AboveRoot == <<"..", "..", "..", "..", "..", "..", "e">>

\* Arguments of Runtime.ResolvePath and of ResolvePath on rt.FS(): "", "..",
\* "~", "/d" (a symlink to a directory), "w" (relative), a path that climbs
\* above the root, "/x/y" and "/..d" (absolute).
RtResolveInputs ==
    {EmptyStr, <<"..">>, <<"~">>, <<"", "d">>, AboveRoot, <<"", "x", "y">>,
     <<"", "..d">>}
RtFsResolveInputs == {<<"w">>, <<"", "d">>}

RtResolvePath(rel, follow) ==
    RtCommit("ResolvePath", Runtime_ResolvePath(host, World(rt, env, fs), rel, follow))

RtFsResolvePath(path, follow) ==
    RtCommit("FS.ResolvePath",
             Runtime_FsResolvePath(host, World(rt, env, fs), path, follow))

\* The state NewRuntime returned without an error.
RtStart(w) ==
    /\ w.err = ""
    /\ host = HostInit
    /\ fs = w.fs
    /\ rt = w.rt
    /\ env = w.env
    /\ last = [op |-> "NewRuntime", err |-> "", val |-> NoPath,
               rtwd0 |-> NoPath, fswd0 |-> NoPath, envwd0 |-> NoPath]
    /\ nmut = 0
    /\ procs = Unused
    /\ pipes = Unused
    /\ pl = Unused
    /\ writer = Unused

\* NewTestRuntime builds the filesystem with NewOsFS(jail, env.Getwd());
\* other callers pass a new OsFS{}.  NewOsRuntime and NewRuntime without
\* an env option take the OsEnv{} and the OsFS{} of the defaults.
RtInit ==
    \E j \in JailInputs, withJail \in BOOLEAN :
        \/ \E home \in HomeInputs, user \in UserInputs, built \in BOOLEAN :
              RtStart(NewRuntime(HostInit, NewTestEnv(j, home, user),
                                 IF built
                                 THEN NewOsFS(HostInit, j, NewTestEnv(j, home, user).pwd).fs
                                 ELSE ZeroOsFS,
                                 IF withJail THEN j ELSE EmptyStr))
        \/ RtStart(NewRuntime(HostInit, NewOsEnv, ZeroOsFS,
                               IF withJail THEN j ELSE EmptyStr))

RtNext ==
    \/ \E j \in JailInputs : RtSetJail(j)
    \/ \E dir \in DirInputs : RtSetwd(dir)
    \/ RtGetwd
    \/ \E rel \in RtResolveInputs, follow \in BOOLEAN : RtResolvePath(rel, follow)
    \/ \E path \in RtFsResolveInputs, follow \in BOOLEAN : RtFsResolvePath(path, follow)

RtSpec == RtInit /\ [][RtNext]_vars

---------------------------------------------------------------------------
(* sandbox/process.go and sandbox/pipeline.go: Process and Pipeline.  A    *)
(* line stands for the bytes of the line and its newline: fmt.Fprintln     *)
(* writes them with one Write, and bufio.Scanner hands them to the runner  *)
(* as one token.  An error is its message, "" is nil; a joined error       *)
(* (errors.Join) is the sequence of the messages, <<>> is nil.             *)

\* Stages of a pipeline.
MaxStages == 2
\* Lines a producer or the feeding task writes.
MaxLines == 3

Words == <<"alpha", "beta", "gamma", "delta", "epsilon">>
Uppers == <<"ALPHA", "BETA", "GAMMA", "DELTA", "EPSILON">>

\* strings.ToUpper.
ToUpper(s) ==
    IF \E k \in 1..Len(Words) : Words[k] = s
    THEN Uppers[CHOOSE k \in 1..Len(Words) : Words[k] = s]
    ELSE s

\* What the consumer runners of the tests write for a line they read.
Consumed(line) == "C:" \o ToUpper(line)

\* The errors a failing runner of stage 1, 2, ... returns.
StageErrs == <<"e1", "e2", "e3", "e4">>

\* A nil pipe end; the stdout pipe and the stdin pipe of process i; the
\* reader a caller hands to SetStdin, which has nothing left to read.
NoPipe == 0
StdoutPipeOf(i) == i
StdinPipeOf(i) == MaxStages + i
ExplicitIn == 2 * MaxStages + 1
PipeIds == 1..(2 * MaxStages + 1)

\* io.Pipe(): synchronous, pending is what a blocked Write still offers.
NewPipe == [made |-> TRUE, pending |-> <<>>, wclosed |-> FALSE]
NoPipes == [id \in PipeIds |-> [made |-> FALSE, pending |-> <<>>, wclosed |-> FALSE]]

\* (*io.PipeWriter).Close: readers see EOF, a blocked Write gives up.
\* A write end that is left open.
closeWriterNot(ps, id) == ps

closeWriter(ps, id) ==
    IF id = NoPipe THEN ps
    ELSE [ps EXCEPT ![id].wclosed = TRUE, ![id].pending = <<>>]

\* (*io.PipeWriter).Write: the bytes are offered to the reader; on a closed
\* pipe the call returns io.ErrClosedPipe and the bytes are dropped.
pipeWrite(ps, id, line) ==
    IF ps[id].wclosed THEN ps ELSE [ps EXCEPT ![id].pending = <<line>>]

\* The Write on the pipe has returned: the reader took all it offered.
writeDone(ps, id) == IF id = NoPipe THEN TRUE ELSE ps[id].pending = <<>>

\* (*io.PipeReader).Read returns: bytes are offered or the writer closed.
canRead(ps, id) == ps[id].pending # <<>> \/ ps[id].wclosed

pipeRead(ps, id) == [ps EXCEPT ![id].pending = Tail(@)]

\* A Runner: nil, or what the function does: "producer" writes n lines,
\* "consumer" reads lines to the end of its input and writes one line for
\* each, "head" does so for n lines and returns, "fail" returns an error
\* with exit code 1, "exit" returns exit code 2 without an error, "mutator"
\* changes its runtime's environment or working directory.
Runner(kind, n) == [kind |-> kind, n |-> n]

\* bufAccess: whether p.mu was held ("locked") or not ("unlocked") at the
\* last read or write of the capture buffer.
\* outW: an explicit writer is set (p.out); buf: the buffer p.outBuf points
\* to, "captured" for the one CaptureStdout returned, "pipeline" for the one
\* of the pipeline, "own" for the one Run made; sink: what Stream.Out is.
NewProcess(fn) ==
    [runner |-> fn, in |-> NoPipe, stdoutW |-> NoPipe, stdinW |-> NoPipe,
     outW |-> FALSE, buf |-> "none", sink |-> "", bufAccess |-> "none",
     hasOutBuf |-> FALSE, outBuf |-> <<>>, hasErrBuf |-> FALSE,
     pc |-> "new", out |-> NoPipe, procRt |-> Unused,
     k |-> 0, hold |-> "", eof |-> FALSE, mutated |-> FALSE, invoked |-> FALSE,
     written |-> <<>>, seen |-> <<>>,
     result |-> [Err |-> "", ExitCode |-> 0]]

\* TestEnv.Clone: the fields and a copy of the map.
TestEnv_Clone(e) ==
    [jail |-> e.jail, home |-> e.home, user |-> e.user,
     pwd |-> e.pwd, tmp |-> e.tmp, data |-> [k \in DOMAIN e.data |-> e.data[k]]]

\* Runtime.Clone: a copy of the struct (the fs pointer is copied, the
\* filesystem is shared) with a clone of the env.
Clone(r, e) == [rt |-> [jail |-> r.jail, wd |-> r.wd], env |-> TestEnv_Clone(e)]

\* TestEnv.Set for "PWD" and for the keys kept in the map.
TestEnv_Set(e, key, value) ==
    IF key = "PWD" THEN TestEnv_Setwd(e, value).env
    ELSE [e EXCEPT !.data[key] = value]

\* Runtime.Set on a valid runtime.
Runtime_Set(h, w, key, value) ==
    IF key = "PWD" THEN Runtime_Setwd(h, w, value)
    ELSE [w EXCEPT !.env = TestEnv_Set(w.env, key, value)]

\* Process.SetStdin, SetStdout and CaptureStdout.
SetStdin(p, r) == [p EXCEPT !.in = r]

SetStdout(p) == [p EXCEPT !.outW = TRUE]

CaptureStdout(p) ==
    [p EXCEPT !.hasOutBuf = TRUE, !.buf = IF p.hasOutBuf THEN @ ELSE "captured"]

\* The pipe taken before the capture buffer.
outputOfPipeFirst(p) ==
    IF p.outW THEN "explicit"
    ELSE IF p.stdoutW # NoPipe THEN "pipe"
    ELSE IF p.hasOutBuf THEN p.buf
    ELSE "own"

\* Process.Run, lines 192-202: what Stream.Out is.
outputOf(p) ==
    IF p.outW THEN "explicit"
    ELSE IF p.hasOutBuf THEN p.buf
    ELSE IF p.stdoutW # NoPipe THEN "pipe"
    ELSE "own"

\* Process.Run, lines 181-225: the runtime is cloned and the streams are
\* resolved.  out is the pipe Stream.Out writes to, NoPipe for a buffer or
\* an explicit writer.
resolveStreams(p, i, r, e) ==
    [p EXCEPT !.pc = "running", !.invoked = TRUE, !.procRt = Clone(r, e),
              !.in = IF p.in # NoPipe THEN p.in ELSE StdinPipeOf(i),
              !.stdinW = IF p.in # NoPipe THEN p.stdinW ELSE StdinPipeOf(i),
              !.sink = outputOf(p),
              !.out = IF outputOf(p) = "pipe" THEN p.stdoutW ELSE NoPipe,
              !.hasOutBuf = p.hasOutBuf \/ outputOf(p) = "own",
              !.buf = IF outputOf(p) = "own" THEN "own" ELSE p.buf,
              !.hasErrBuf = TRUE]

\* A Run that makes a new stdin pipe whatever the process holds.
ensureStdinPipeFresh(ps, p, i) == [ps EXCEPT ![StdinPipeOf(i)] = NewPipe]

\* Process.Run, lines 183-190: without an input, the stdin pipe is made
\* unless the process has one.
ensureStdinPipe(ps, p, i) ==
    IF p.in = NoPipe /\ p.stdinW = NoPipe
    THEN [ps EXCEPT ![StdinPipeOf(i)] = NewPipe]
    ELSE ps

\* StageWithName(name, p): a stage that wraps the process p; Stage(name,
\* runner) is the runner itself.
StageWithName(p) == [kind |-> p.runner.kind, n |-> p.runner.n, process |-> p]

\* Pipeline.Run, lines 100-107: the process of a stage.
processOf(stage) ==
    IF "process" \in DOMAIN stage THEN stage.process
    ELSE NewProcess(Runner(stage.kind, stage.n))

\* Stages left without their wiring.
stageProcessUnwired(stages, i) ==
    [processOf(stages[i]) EXCEPT
        !.stdoutW = IF i < Len(stages) THEN StdoutPipeOf(i) ELSE @,
        !.hasOutBuf = (i = Len(stages)) \/ @,
        !.buf = IF i = Len(stages) THEN "pipeline" ELSE @,
        !.hasErrBuf = (i = Len(stages)) \/ @,
        !.pc = "spawned"]

\* A last stage that is left with the buffer it has.
stageProcessUnbuffered(stages, i) ==
    [processOf(stages[i]) EXCEPT
        !.stdoutW = IF i < Len(stages) THEN StdoutPipeOf(i) ELSE @,
        !.in = IF i > 1 THEN StdoutPipeOf(i - 1) ELSE @,
        !.pc = "spawned"]

\* Pipeline.Run, lines 100-124: the process of stage i, wired to its
\* neighbours (StdoutPipe, SetStdin); the last one is given the pipeline's
\* buffers.
stageProcess(stages, i) ==
    [processOf(stages[i]) EXCEPT
        !.stdoutW = IF i < Len(stages) THEN StdoutPipeOf(i) ELSE @,
        !.in = IF i > 1 THEN StdoutPipeOf(i - 1) ELSE @,
        !.hasOutBuf = (i = Len(stages)) \/ @,
        !.buf = IF i = Len(stages) THEN "pipeline" ELSE @,
        !.hasErrBuf = (i = Len(stages)) \/ @,
        !.pc = "spawned"]

PipelineResult(errs, code, out) == [Err |-> errs, ExitCode |-> code, Stdout |-> out]

\* An aggregate that reports the first failing stage only.
aggregateFirst(errCh, out) ==
    PipelineResult(IF SelectSeq(errCh, LAMBDA e : e # "") # <<>>
                   THEN <<Head(SelectSeq(errCh, LAMBDA e : e # ""))>> ELSE <<>>,
                   IF SelectSeq(errCh, LAMBDA e : e # "") # <<>> THEN 1 ELSE 0, out)

\* Pipeline.Run, lines 140-157: the non-nil errors joined.
aggregate(errCh, out) ==
    PipelineResult(SelectSeq(errCh, LAMBDA e : e # ""),
                   IF SelectSeq(errCh, LAMBDA e : e # "") # <<>> THEN 1 ELSE 0, out)

\* timed: the pipeline is run with RunWithTimeout; expired: the deadline of
\* its context has passed; captured: Pipeline.CaptureStdout was called.
NewPipeline(stages, nilRt) ==
    [pc |-> "idle", nilRt |-> nilRt, stages |-> stages, errCh |-> <<>>,
     result |-> PipelineResult(<<>>, 0, <<>>), timed |-> FALSE, expired |-> FALSE,
     captured |-> FALSE]

\* The bytes in the buffer of the pipeline: what the last process wrote to
\* it.
PipelineOut(ps) ==
    IF ps # <<>> /\ ps[Len(ps)].buf = "pipeline" THEN ps[Len(ps)].outBuf ELSE <<>>

\* A caller that runs one process with Process.Run.
DirectCaller(nilRt) == [NewPipeline(<<>>, nilRt) EXCEPT !.pc = "direct"]

\* err: what the last Process.Write returned.
ErrClosedPipe == "io: read/write on closed pipe"
NoWriter == [pc |-> "none", k |-> 0, n |-> 0, err |-> ""]

---------------------------------------------------------------------------
(* The steps of a pipeline, of its processes and of the feeding task. *)

\* The runtime the tests pass to Run (newProcessRuntime): a TestEnv over a
\* temporary jail, an OsFS{} and the env's jail.
SuppliedRuntime ==
    NewRuntime(HostInit, NewTestEnv(<<"", "j">>, EmptyStr, ""), ZeroOsFS, <<"", "j">>)

\* What a mutator runner passes to Runtime.Set and Runtime.Setwd.
StageDirs == {<<"", "w">>, <<"..">>}

StageRunners ==
    {Runner("nil", 0), Runner("fail", 0), Runner("exit", 0), Runner("mutator", 0),
     Runner("consumer", 0), Runner("head", 1)}
        \cup {Runner("producer", n) : n \in 1..MaxLines}

Pipelines == UNION {[1..n -> StageRunners] : n \in 0..MaxStages}

\* Pipeline.Run up to the start of the stage goroutines, or to its early
\* return.  RunWithTimeout derives the context with the deadline and calls
\* Run.
PipelineRun ==
    /\ pl.pc = "idle"
    /\ IF pl.nilRt
       THEN /\ pl' = [pl EXCEPT !.pc = "returned",
                        !.result = PipelineResult(<<"pipeline: runtime is nil">>, 1, <<>>)]
            /\ UNCHANGED <<procs, pipes>>
       ELSE IF Len(pl.stages) = 0
       THEN /\ pl' = [pl EXCEPT !.pc = "returned",
                        !.result = PipelineResult(<<"pipeline: no stages">>, 1, <<>>)]
            /\ UNCHANGED <<procs, pipes>>
       ELSE /\ pl' = [pl EXCEPT !.pc = "waiting"]
            /\ procs' = [i \in 1..Len(pl.stages) |-> stageProcess(pl.stages, i)]
            /\ pipes' = [id \in PipeIds |->
                            IF id < Len(pl.stages) THEN NewPipe ELSE pipes[id]]
    /\ UNCHANGED <<host, fs, last, nmut, rt, env, writer>>

\* Process.Run returns: the goroutine sends res.Err on errCh.
\* An exit code that is not 0 reported to the pipeline as an error.
ReturnedExitAsError(i, e, code, ps) ==
    /\ procs' = [procs EXCEPT ![i].pc = "returned",
                              ![i].bufAccess = IF procs[i].invoked /\ procs[i].hasOutBuf
                                               THEN "locked" ELSE @,
                              ![i].result = [Err |-> e, ExitCode |-> code]]
    /\ pipes' = ps
    /\ pl' = [pl EXCEPT !.errCh = Append(@, IF e = "" /\ code # 0 THEN "exit" ELSE e)]
    /\ UNCHANGED <<host, fs, last, nmut, rt, env, writer>>

Returned(i, e, code, ps) ==
    /\ procs' = [procs EXCEPT ![i].pc = "returned",
                              ![i].bufAccess = IF procs[i].invoked /\ procs[i].hasOutBuf
                                               THEN "locked" ELSE @,
                              ![i].result = [Err |-> e, ExitCode |-> code]]
    /\ pipes' = ps
    /\ pl' = [pl EXCEPT !.errCh = Append(@, e)]
    /\ UNCHANGED <<host, fs, last, nmut, rt, env, writer>>

\* Process.Run up to the call of the runner, or to its early return.  The
\* clone of a runtime that is not nil is not nil.
Run(i) ==
    /\ i \in DOMAIN procs
    /\ procs[i].pc = "spawned"
    /\ IF procs[i].runner.kind = "nil"
       THEN Returned(i, "Run: no runner configured", 1, pipes)
       ELSE IF pl.nilRt
       THEN Returned(i, "Run: runtime is nil", 1, pipes)
       ELSE /\ procs' = [procs EXCEPT ![i] = resolveStreams(@, i, rt, env)]
            /\ pipes' = ensureStdinPipe(pipes, procs[i], i)
            /\ UNCHANGED <<host, fs, last, nmut, rt, env, pl, writer>>

Running(i) ==
    /\ i \in DOMAIN procs
    /\ procs[i].pc = "running"
    /\ writeDone(pipes, procs[i].out)

\* The runner has a line to write: the next line of a producer, the answer
\* of a consumer to the line it holds.
HasLine(p) ==
    \/ p.runner.kind = "producer" /\ p.k < p.runner.n
    \/ p.runner.kind \in {"consumer", "head"} /\ p.hold # ""

NextLine(p) ==
    IF p.runner.kind = "producer" THEN Words[p.k + 1] ELSE Consumed(p.hold)

\* fmt.Fprintln(s.Out, line) by the runner of process i.
Emit(i) ==
    /\ Running(i)
    /\ HasLine(procs[i])
    /\ procs' = [procs EXCEPT
                    ![i].written = Append(@, NextLine(procs[i])),
                    ![i].outBuf = IF procs[i].sink \in {"captured", "pipeline", "own"}
                                  THEN Append(@, NextLine(procs[i])) ELSE @,
                    ![i].bufAccess = IF procs[i].sink \in {"captured", "pipeline", "own"}
                                     THEN "unlocked" ELSE @,
                    ![i].k = IF procs[i].runner.kind = "producer" THEN @ + 1 ELSE @,
                    ![i].hold = ""]
    /\ pipes' = IF procs[i].out = NoPipe THEN pipes
                ELSE pipeWrite(pipes, procs[i].out, NextLine(procs[i]))
    /\ UNCHANGED <<host, fs, last, nmut, rt, env, pl, writer>>

\* The runner goes on reading its input.
Reads(p) ==
    /\ p.runner.kind \in {"consumer", "head"}
    /\ p.hold = ""
    /\ ~p.eof
    /\ ~(p.runner.kind = "head" /\ p.k >= p.runner.n)

\* sc.Scan() by the runner of process i: a line, or the end of the input.
Read(i) ==
    /\ Running(i)
    /\ Reads(procs[i])
    /\ canRead(pipes, procs[i].in)
    /\ IF pipes[procs[i].in].pending # <<>>
       THEN /\ procs' = [procs EXCEPT
                            ![i].seen = Append(@, Head(pipes[procs[i].in].pending)),
                            ![i].hold = Head(pipes[procs[i].in].pending),
                            ![i].k = @ + 1]
            /\ pipes' = pipeRead(pipes, procs[i].in)
       ELSE /\ procs' = [procs EXCEPT ![i].eof = TRUE]
            /\ pipes' = pipes
    /\ UNCHANGED <<host, fs, last, nmut, rt, env, pl, writer>>

StageWorld(i) == World(procs[i].procRt.rt, procs[i].procRt.env, fs)

Mutated(i, w) ==
    /\ procs' = [procs EXCEPT ![i].procRt = [rt |-> w.rt, env |-> w.env],
                              ![i].mutated = TRUE]
    /\ fs' = w.fs
    /\ UNCHANGED <<host, last, nmut, rt, env, pipes, pl, writer>>

\* rt.Set(key, value) or rt.Setwd(dir) by the runner of process i, on the
\* runtime Run gave it.
Mutate(i) ==
    /\ Running(i)
    /\ procs[i].runner.kind = "mutator"
    /\ ~procs[i].mutated
    /\ \/ \E key \in EnvKeys, value \in EnvValues :
            Mutated(i, Runtime_Set(host, StageWorld(i), key, value))
       \/ \E dir \in StageDirs :
            Mutated(i, Runtime_Setwd(host, StageWorld(i), dir))

\* The runner has nothing left to do.
Finished(p) ==
    \/ p.runner.kind = "producer" /\ p.k = p.runner.n
    \/ p.runner.kind \in {"consumer", "head"} /\ p.hold = "" /\ ~Reads(p)
    \/ p.runner.kind \in {"fail", "exit"}
    \/ p.runner.kind = "mutator" /\ p.mutated

\* The runner returns and Process.Run closes the write ends it owns
\* (lines 227-253).
ProcReturn(i) ==
    /\ Running(i)
    /\ Finished(procs[i])
    /\ Returned(i, IF procs[i].runner.kind = "fail" THEN StageErrs[i] ELSE "",
                IF procs[i].runner.kind = "fail" THEN 1
                ELSE IF procs[i].runner.kind = "exit" THEN 2 ELSE 0,
                closeWriter(closeWriter(pipes, procs[i].stdoutW), procs[i].stdinW))

\* Pipeline.Run from wg.Wait() to its return.
\* A Run that waits for its last stage only.
PipelineWaitLast ==
    /\ pl.pc = "waiting"
    /\ procs[Len(procs)].pc = "returned"
    /\ pl' = [pl EXCEPT !.pc = "returned",
                        !.result = aggregate(pl.errCh, PipelineOut(procs))]
    /\ UNCHANGED <<host, fs, last, nmut, rt, env, procs, pipes, writer>>

PipelineWait ==
    /\ pl.pc = "waiting"
    /\ \A i \in DOMAIN procs : procs[i].pc = "returned"
    /\ pl' = [pl EXCEPT !.pc = "returned",
                        !.result = aggregate(pl.errCh, PipelineOut(procs))]
    /\ UNCHANGED <<host, fs, last, nmut, rt, env, procs, pipes, writer>>

\* The deadline of the context that RunWithTimeout made passes: the context
\* is cancelled.  Neither Pipeline.Run nor Process.Run reads ctx.Done(), and
\* the runners of the model do not either.
Deadline ==
    /\ pl.timed
    /\ pl.pc = "waiting"
    /\ ~pl.expired
    /\ pl' = [pl EXCEPT !.expired = TRUE]
    /\ UNCHANGED <<host, fs, last, nmut, rt, env, procs, pipes, writer>>

\* Process.Write, lines 139-145: the stdin pipe is made on first use.
withStdin(p, i) ==
    IF p.stdinW = NoPipe
    THEN [p EXCEPT !.stdinW = StdinPipeOf(i), !.in = StdinPipeOf(i)]
    ELSE p

\* Process.Write by the feeding task, once its last Write has returned.
Write ==
    /\ writer.pc = "writing"
    /\ writer.k < writer.n
    /\ writeDone(pipes, procs[1].stdinW)
    /\ procs' = [procs EXCEPT ![1] = withStdin(@, 1)]
    /\ pipes' = pipeWrite(IF procs[1].stdinW = NoPipe
                          THEN [pipes EXCEPT ![StdinPipeOf(1)] = NewPipe]
                          ELSE pipes,
                          StdinPipeOf(1), Words[writer.k + 1])
    /\ writer' = [writer EXCEPT !.k = @ + 1,
                                !.err = IF procs[1].stdinW # NoPipe
                                           /\ pipes[procs[1].stdinW].wclosed
                                        THEN ErrClosedPipe ELSE ""]
    /\ UNCHANGED <<host, fs, last, nmut, rt, env, pl>>

\* Process.Close by the feeding task, after its last Write.
Close ==
    /\ writer.pc = "writing"
    /\ writer.k = writer.n
    /\ writeDone(pipes, procs[1].stdinW)
    /\ pipes' = closeWriter(pipes, procs[1].stdinW)
    /\ writer' = [writer EXCEPT !.pc = "closed"]
    /\ UNCHANGED <<host, fs, last, nmut, rt, env, procs, pl>>

\* A pipeline about to run with Run or with RunWithTimeout, or one process
\* a caller runs directly while another task feeds it n lines and closes
\* it.
PipeStart(w) ==
    /\ host = HostInit
    /\ fs = w.fs
    /\ rt = w.rt
    /\ env = w.env
    /\ last = NoCall
    /\ nmut = 0
    /\ pipes = NoPipes
    /\ \E nilRt \in BOOLEAN :
        \/ \E stages \in Pipelines, timed \in BOOLEAN :
            /\ pl = [NewPipeline(stages, nilRt) EXCEPT !.timed = timed]
            /\ procs = <<>>
            /\ writer = NoWriter
        \/ \E fn \in StageRunners, capture \in BOOLEAN, n \in 0..MaxLines :
            /\ pl = DirectCaller(nilRt)
            /\ procs = <<[(IF capture THEN CaptureStdout(NewProcess(fn))
                            ELSE NewProcess(fn)) EXCEPT !.pc = "spawned"]>>
            /\ writer = [pc |-> "writing", k |-> 0, n |-> n, err |-> ""]

PipeInit == PipeStart(SuppliedRuntime)

ProcStep(i) == Run(i) \/ Emit(i) \/ Read(i) \/ Mutate(i) \/ ProcReturn(i)

PipeNext ==
    \/ PipelineRun
    \/ \E i \in 1..MaxStages : Run(i)
    \/ \E i \in 1..MaxStages : Emit(i)
    \/ \E i \in 1..MaxStages : Read(i)
    \/ \E i \in 1..MaxStages : Mutate(i)
    \/ \E i \in 1..MaxStages : ProcReturn(i)
    \/ PipelineWait
    \/ Deadline
    \/ Write
    \/ Close

PipeSpec == PipeInit /\ [][PipeNext]_vars

\* Every goroutine that can take a step eventually takes one.
FairPipeSpec ==
    /\ PipeSpec
    /\ \A i \in 1..MaxStages : WF_vars(ProcStep(i))
    /\ WF_vars(PipelineRun \/ PipelineWait)
    /\ WF_vars(Write \/ Close)

---------------------------------------------------------------------------
(* Pipelines with stages that wrap a process the caller has configured    *)
(* (StageWithName), and with the pipeline's own capture buffer.           *)

\* The processes a caller wraps: a consumer reading an explicit reader, a
\* producer whose output is captured, a producer with an explicit writer,
\* and a producer with both.
PrebuiltProcesses ==
    {SetStdin(NewProcess(Runner("consumer", 0)), ExplicitIn),
     CaptureStdout(NewProcess(Runner("producer", 1))),
     SetStdout(NewProcess(Runner("producer", 1))),
     CaptureStdout(SetStdout(NewProcess(Runner("producer", 1))))}

PrebuiltStages ==
    {StageWithName(p) : p \in PrebuiltProcesses}
        \cup {Runner("producer", 1), Runner("consumer", 0)}

PrebuiltPipelines == UNION {[1..n -> PrebuiltStages] : n \in 1..MaxStages}

\* The explicit reader is at its end when the pipeline starts.  A caller
\* may also run one process, configured or not, with Process.Run.
PrebuiltInit ==
    /\ host = HostInit
    /\ fs = SuppliedRuntime.fs
    /\ rt = SuppliedRuntime.rt
    /\ env = SuppliedRuntime.env
    /\ last = NoCall
    /\ nmut = 0
    /\ pipes = [NoPipes EXCEPT ![ExplicitIn] =
                    [made |-> TRUE, pending |-> <<>>, wclosed |-> TRUE]]
    /\ writer = NoWriter
    /\ \/ \E stages \in PrebuiltPipelines, captured \in BOOLEAN :
            /\ pl = [NewPipeline(stages, FALSE) EXCEPT !.captured = captured]
            /\ procs = <<>>
       \/ \E stage \in PrebuiltStages :
            /\ pl = DirectCaller(FALSE)
            /\ procs = <<[processOf(stage) EXCEPT !.pc = "spawned"]>>

PrebuiltNext ==
    \/ PipelineRun
    \/ \E i \in 1..MaxStages : Run(i)
    \/ \E i \in 1..MaxStages : Emit(i)
    \/ \E i \in 1..MaxStages : Read(i)
    \/ \E i \in 1..MaxStages : ProcReturn(i)
    \/ PipelineWait

PrebuiltSpec == PrebuiltInit /\ [][PrebuiltNext]_vars

---------------------------------------------------------------------------
(* toolkit/filesystem/filesystem.go: atomicWriteFile, one os call at a     *)
(* time, each of which may fail.  last is the call under way:              *)
(* [op, pc, impl, dest, data, tmp, err, prior, priorRead].                 *)

\* Calls of AtomicWriteFile per run.
MaxAtomicWrites == 1

\* os.TempDir() of the test process.
OsTempDir == <<"", "o">>

\* The bytes handed to AtomicWriteFile, and what a Write that fails may
\* have put in the file before it did: a part of the bytes.
DataInputs == {"new", "xy"}
Partial(data) == IF data = "new" THEN {"", "n", "ne"} ELSE {"", "x"}

\* The random part os.CreateTemp puts in place of the "*" of its pattern.
TempSuffixes == {"1", "2"}

\* Path arguments: /f is a file, /n is missing, /w a directory, /l a
\* symlink, /n/x lies in a missing directory, /f/x below a file, / the root.
AtomicInputs ==
    {<<"", "f">>, <<"", "n">>, <<"", "w">>, <<"", "l">>, <<"", "n", "x">>,
     <<"", "f", "x">>, Root}

\* The two functions of the repository: atomicWriteFile behind the jailed
\* OsFS, and AtomicWriteFile of the OsFS of package toolkit, which is handed
\* a host path and makes its temporary file in os.TempDir().
AtomicImpls == {"filesystem", "toolkit"}

NoNode == Node("none", "", EmptyStr)

nodeAt(h, r) == IF r.err # "" \/ r.path \notin DOMAIN h THEN NoNode ELSE h[r.path]

\* What the host has at the path p itself (os.Lstat), and what a reader of
\* p gets (os.ReadFile).
NodeAt(h, p) == nodeAt(h, Walk(h, p, FALSE))

readOf(o) == [err |-> o.err, data |-> o.data]

ReadAt(h, p) == readOf(osReadFile(h, p))

\* os.CreateTemp: the file is created with O_EXCL in an existing directory.
osCreateTemp(h, p) ==
    LET r == Walk(h, p, FALSE)
    IN  IF r.err # "" THEN OsRes(r.err, h, "", {})
        ELSE IF r.path \in DOMAIN h THEN OsRes("EEXIST", h, "", {})
        ELSE OsRes("", (r.path :> FileNode("")) @@ h, "", {r.path})

\* ".tmp-" + filepath.Base(path) + ".*" with the "*" replaced.
TempName(dest, suffix) == ".tmp-" \o Base(dest) \o "." \o suffix

\* The directory the temporary file is made in.
TempDir(impl, dest) == IF impl = "toolkit" THEN OsTempDir ELSE Dir(dest)

\* A return that leaves the temporary file where it is.
deferredRemoveNone(h, tmp) == h

\* defer os.Remove(tmpName): its error is dropped.
deferredRemove(h, tmp) == osRemove(h, tmp).host

NoAtomicWrite ==
    [op |-> "", pc |-> "idle", impl |-> "", dest |-> NoPath, data |-> "",
     tmp |-> NoPath, err |-> "", prior |-> NoNode,
     priorRead |-> [err |-> "", data |-> ""]]

\* The call once the path is resolved to the host path dest.
NewAtomicWrite(h, impl, dest, data) ==
    [NoAtomicWrite EXCEPT !.op = "AtomicWriteFile", !.pc = "mkdirall",
                          !.impl = impl, !.dest = dest, !.data = data,
                          !.prior = NodeAt(h, dest),
                          !.priorRead = ReadAt(h, dest)]

\* The call returns e before it made a temporary file.
AtomicReturned(a, e) == [a EXCEPT !.pc = "returned", !.err = e]

\* The call is about to return e; the deferred os.Remove is still to run.
AtomicReturning(a, e) == [a EXCEPT !.pc = "returning", !.err = e]

AtomicStep(h, a) ==
    /\ host' = h
    /\ last' = a
    /\ UNCHANGED <<fs, nmut, rtvars, pvars>>

atomicResolved(impl, r, data) ==
    /\ fs' = r.fs
    /\ host' = host
    /\ last' = IF r.err # ""
               THEN AtomicReturned([NoAtomicWrite EXCEPT !.op = "AtomicWriteFile",
                                                         !.impl = impl], r.err)
               ELSE NewAtomicWrite(host, impl, r.val, data)
    /\ nmut' = nmut + 1
    /\ UNCHANGED <<rtvars, pvars>>

\* OsFS.AtomicWriteFile: the path is resolved to a host path.
AtomicWriteFile(impl, p, data) ==
    /\ last.pc \in {"idle", "returned"}
    /\ nmut < MaxAtomicWrites
    /\ atomicResolved(impl, IF impl = "toolkit" THEN FsRes(fs, "", p)
                            ELSE resolveHost(host, fs, p, FALSE), data)

atomicMkdirAll(o) ==
    AtomicStep(o.host, IF o.err # ""
                       THEN AtomicReturned(last, "atomic write: mkdirall")
                       ELSE [last EXCEPT !.pc = "createtemp"])

\* os.MkdirAll(dir, 0o755).
AtomicMkdirAll(fail) ==
    /\ last.pc = "mkdirall"
    /\ IF fail THEN AtomicStep(host, AtomicReturned(last, "atomic write: mkdirall"))
       ELSE atomicMkdirAll(osMkdirAll(host, Dir(last.dest)))

atomicCreateTemp(o, tmp) ==
    AtomicStep(o.host, IF o.err # ""
                       THEN AtomicReturned(last, "atomic write: create temp file")
                       ELSE [last EXCEPT !.pc = "write", !.tmp = tmp])

\* os.CreateTemp(dir, pattern): a pattern with a path separator is refused.
AtomicCreateTemp(fail, suffix) ==
    /\ last.pc = "createtemp"
    /\ IF fail \/ Base(last.dest) = "/"
       THEN AtomicStep(host, AtomicReturned(last, "atomic write: create temp file"))
       ELSE atomicCreateTemp(
                osCreateTemp(host, Join(TempDir(last.impl, last.dest),
                                        <<TempName(last.dest, suffix)>>)),
                Join(TempDir(last.impl, last.dest), <<TempName(last.dest, suffix)>>))

\* tmpFile.Write(data); when it fails the file is closed and the call
\* returns.
AtomicWrite(fail) ==
    /\ last.pc = "write"
    /\ IF fail
       THEN \E part \in Partial(last.data) :
                AtomicStep(osWriteFile(host, last.tmp, part).host,
                           AtomicReturning(last, "atomic write: write temp file"))
       ELSE AtomicStep(osWriteFile(host, last.tmp, last.data).host,
                       [last EXCEPT !.pc = "close"])

\* tmpFile.Close(), and the os.Chmod whose error is dropped.
AtomicClose(fail) ==
    /\ last.pc = "close"
    /\ AtomicStep(host, IF fail
                        THEN AtomicReturning(last, "atomic write: close temp file")
                        ELSE [last EXCEPT !.pc = "rename"])

atomicRename(o) ==
    AtomicStep(o.host, AtomicReturning(last, IF o.err # "" THEN "atomic write: rename"
                                             ELSE ""))

\* os.Rename(tmpName, path).
AtomicRename(fail) ==
    /\ last.pc = "rename"
    /\ IF fail THEN AtomicStep(host, AtomicReturning(last, "atomic write: rename"))
       ELSE atomicRename(osRename(host, last.tmp, last.dest))

\* The deferred os.Remove(tmpName) runs and the call returns.
AtomicReturn ==
    /\ last.pc = "returning"
    /\ AtomicStep(deferredRemove(host, last.tmp), [last EXCEPT !.pc = "returned"])

AtomicInit ==
    /\ host = HostInit
    /\ fs \in {ZeroOsFS} \cup
              {NewOsFS(HostInit, j, w).fs : j \in JailInputs, w \in {EmptyStr, <<"w">>}}
    /\ last = NoAtomicWrite
    /\ nmut = 0
    /\ rt = Unused
    /\ env = Unused
    /\ procs = Unused
    /\ pipes = Unused
    /\ pl = Unused
    /\ writer = Unused

AtomicNext ==
    \/ \E impl \in AtomicImpls, p \in AtomicInputs, data \in DataInputs :
          AtomicWriteFile(impl, p, data)
    \/ \E fail \in BOOLEAN : AtomicMkdirAll(fail)
    \/ \E fail \in BOOLEAN, suffix \in TempSuffixes : AtomicCreateTemp(fail, suffix)
    \/ \E fail \in BOOLEAN : AtomicWrite(fail)
    \/ \E fail \in BOOLEAN : AtomicClose(fail)
    \/ \E fail \in BOOLEAN : AtomicRename(fail)
    \/ AtomicReturn

AtomicSpec == AtomicInit /\ [][AtomicNext]_vars

---------------------------------------------------------------------------
(* toolkit/jail/path.go called on its own: one call of EnsureInJail,       *)
(* RemoveJailPrefix or IsInJail, or RemoveJailPrefix on what EnsureInJail  *)
(* returned.  last is [op, from, jailPath, path, val, inside].             *)

\* Path arguments: the empty string, "/", relative paths, paths above,
\* beside and below the jail /j, and names that start with two dots.
JailPathInputs ==
    {EmptyStr, Root, <<"w">>, <<"..">>, <<"", "x">>, <<"", "o">>, <<"", "j">>,
     <<"", "j", "x">>, <<"", "j", "..d">>, <<"", "..d">>, <<"", "j", "..", "o">>,
     <<"", "j", "x", "..">>}

NoJailCall(j, p) ==
    [op |-> "none", from |-> "none", jailPath |-> j, path |-> p, val |-> p,
     inside |-> FALSE]

JailInit ==
    /\ host = HostInit
    /\ fs = Unused
    /\ rt = Unused
    /\ env = Unused
    /\ nmut = 0
    /\ procs = Unused
    /\ pipes = Unused
    /\ pl = Unused
    /\ writer = Unused
    /\ \E j \in JailInputs, p \in JailPathInputs : last = NoJailCall(j, p)

JailEnsureInJail ==
    /\ last.op = "none"
    /\ last' = [last EXCEPT !.op = "EnsureInJail", !.from = last.op,
                            !.val = EnsureInJail(last.jailPath, last.path)]
    /\ UNCHANGED <<host, fs, nmut, rt, env, procs, pipes, pl, writer>>

JailRemoveJailPrefix ==
    /\ last.op \in {"none", "EnsureInJail"}
    /\ last' = [last EXCEPT !.op = "RemoveJailPrefix", !.from = last.op,
                            !.val = RemoveJailPrefix(last.jailPath, last.val)]
    /\ UNCHANGED <<host, fs, nmut, rt, env, procs, pipes, pl, writer>>

JailIsInJail ==
    /\ last.op = "none"
    /\ last' = [last EXCEPT !.op = "IsInJail", !.from = last.op,
                            !.inside = IsInJail(last.jailPath, last.path)]
    /\ UNCHANGED <<host, fs, nmut, rt, env, procs, pipes, pl, writer>>

JailNext == JailEnsureInJail \/ JailRemoveJailPrefix \/ JailIsInJail

JailSpec == JailInit /\ [][JailNext]_vars

---------------------------------------------------------------------------
(* Confinement of a jailed OsFS. *)

\* The host path p is the directory j or lies below it.
Under(j, p) == IsPrefixPath(Clean(j), Clean(p))

\* Jail roots and absolute host paths of up to two segments over a small
\* alphabet that has a sibling of the jail with the jail's name as prefix.
JailRoots == {<<"", "j">>, <<"", "j", "w">>}
HostSegs == {"j", "jx", "w", "o", "..d"}
HostPaths ==
    {Root} \cup {<<"", a>> : a \in HostSegs}
           \cup {<<"", a, b>> : a \in HostSegs, b \in HostSegs}

\* The calls whose host access is under the caller's control.
HostAccessOps ==
    {"ReadFile", "WriteFile", "Mkdir", "MkdirAll", "Remove", "RemoveAll",
     "Rename", "Stat", "Lstat", "ReadDir", "Symlink"}

\* The last call ran with a jail and its argument led to a host path
\* outside of it.
ResolvedOutside ==
    /\ last.op # ""
    /\ last.jail # EmptyStr
    /\ \E q \in last.touched : ~Under(last.jail, q)

\* C1: for a non-empty jail J and an absolute path P not under J,
\* IsInJail(J, P) is false, and a call on a jailed filesystem whose argument
\* resolves to such a P fails with ErrEscapeAttempt.
C1_EscapeAlwaysReported ==
    /\ \A j \in JailRoots, q \in HostPaths : ~Under(j, q) => ~IsInJail(j, q)
    /\ ResolvedOutside => last.err = ErrEscapeAttempt

\* C2: with a jail set, no ReadFile, WriteFile, Mkdir, Remove, Rename, Stat,
\* ReadDir or Symlink reads or writes a host path outside the jail.
C2_HostAccessConfined ==
    (last.op \in HostAccessOps /\ last.jail # EmptyStr)
        => \A q \in last.touched : Under(last.jail, q)

\* C3: a jailed Setwd whose target resolves outside the jail returns an
\* error and leaves the working directory as it was.
C3_SetwdOutsideRejected ==
    (last.op = "Setwd" /\ ResolvedOutside)
        => (last.err # "" /\ fs.wd = last.wd0)

---------------------------------------------------------------------------
(* Agreement of a runtime with its collaborators. *)

\* The runtime, its environment and its filesystem report the same jail and
\* the same working directory.
Agree ==
    /\ rt.jail = env.jail
    /\ rt.jail = fs.jail
    /\ TestEnv_Getwd(env).err = ""
    /\ rt.wd = TestEnv_Getwd(env).val
    /\ rt.wd = OsFS_Getwd(fs).val

\* C4: after NewRuntime succeeded and after every successful Runtime.SetJail
\* or Runtime.Setwd, the runtime, its environment and its filesystem report
\* the same jail and the same working directory.
C4_CollaboratorsAgree ==
    (last.op \in {"NewRuntime", "SetJail", "Setwd"} /\ last.err = "") => Agree

---------------------------------------------------------------------------
(* Isolation of the runtimes that concurrent stages are given. *)

\* What a runtime shows its holder: Get("K"), Getwd(), Env().Getwd() and
\* FS().Getwd().
View(r, e, f) ==
    [k |-> TestEnv_Get(e, "K"), wd |-> r.wd,
     envwd |-> TestEnv_Getwd(e).val, fswd |-> OsFS_Getwd(f).val]

SuppliedView == View(SuppliedRuntime.rt, SuppliedRuntime.env, SuppliedRuntime.fs)

\* C5: an environment variable set or a working directory changed by one
\* stage's runner on its runtime is observable neither through the runtime
\* of a sibling stage (its Get, Getwd, Env, FS) nor through the runtime
\* that was supplied to Run.
C5_StageMutationInvisible ==
    /\ View(rt, env, fs) = SuppliedView
    /\ \A j \in DOMAIN procs :
          (procs[j].invoked /\ ~procs[j].mutated)
              => View(procs[j].procRt.rt, procs[j].procRt.env, fs) = SuppliedView

---------------------------------------------------------------------------
(* Termination of a pipeline and the bytes its stages exchange. *)

\* Pipeline.Run waits for its stages and nothing can take a step any more.
Deadlocked == pl.pc = "waiting" /\ ~ENABLED PipeNext

\* A two-stage pipeline whose downstream stage returned after it read a
\* part of its input while the upstream stage is still running.
PartialConsumed ==
    /\ Len(procs) = 2
    /\ procs[2].pc = "returned"
    /\ procs[2].seen # <<>>
    /\ procs[1].pc = "running"

\* C6: in a two-stage pipeline whose downstream stage returns after
\* consuming a part of its input while the upstream stage has bytes left to
\* write, the harness does not deadlock: every stage returns and
\* Pipeline.Run returns.
C6_PartialConsumptionNoDeadlock == ~(PartialConsumed /\ Deadlocked)

\* What is offered on the input of a process and not read yet.
InFlight(p) == IF p.in = NoPipe THEN <<>> ELSE pipes[p.in].pending

\* C7: in a pipeline, what stage i wrote is what stage i+1 has read so far
\* followed by what waits on its input, in the order written, nothing lost
\* and nothing twice; stage i+1 sees the end of its input only after stage
\* i returned and all of it was read; run with a runtime, a producer of
\* alpha, beta, gamma before a consumer gives exactly C:ALPHA, C:BETA,
\* C:GAMMA.
C7_StageBytesInOrder ==
    /\ \A i \in DOMAIN procs :
          i < Len(procs) =>
              /\ procs[i].written = procs[i + 1].seen \o InFlight(procs[i + 1])
              /\ procs[i + 1].eof =>
                    /\ procs[i].pc = "returned"
                    /\ procs[i + 1].seen = procs[i].written
    /\ (/\ pl.pc = "returned"
        /\ ~pl.nilRt
        /\ pl.stages = <<Runner("producer", 3), Runner("consumer", 0)>>)
          => /\ pl.result.Stdout = <<"C:ALPHA", "C:BETA", "C:GAMMA">>
             /\ pl.result.Err = <<>>

C7_ProducerConsumerDone ==
    /\ pl.pc = "returned"
    /\ ~pl.nilRt
    /\ pl.stages = <<Runner("producer", 3), Runner("consumer", 0)>>
    /\ procs[2].eof
    /\ procs[2].seen = <<"alpha", "beta", "gamma">>

\* One process with a consumer runner, run directly with a runtime, whose
\* input is not set and is fed at least one line by Process.Write.
Fed ==
    /\ pl.pc = "direct"
    /\ ~pl.nilRt
    /\ procs[1].runner.kind = "consumer"
    /\ writer.n >= 1

\* The answers of the consumer to the first n lines written.
Answers(n) == [k \in 1..n |-> Consumed(Words[k])]

FedInOrder ==
    Fed => /\ Len(procs[1].seen) <= writer.k
           /\ procs[1].seen = SubSeq(Words, 1, Len(procs[1].seen))
           /\ procs[1].eof => (writer.pc = "closed" /\ Len(procs[1].seen) = writer.n)
           /\ procs[1].pc = "returned" =>
                 /\ procs[1].written = Answers(writer.n)
                 /\ procs[1].outBuf = Answers(writer.n)

\* C8: lines written with Process.Write by another task, in any
\* interleaving of the first Write with the start of Run, reach the runner
\* in the order written; after Process.Close the runner sees the end of its
\* input and Run returns; n lines written give the n answers in order.
C8_WritesDeliveredInOrder ==
    /\ []FedInOrder
    /\ (Fed /\ writer.pc = "closed") ~> (Fed /\ procs[1].pc = "returned")

C8_FedThreeLines ==
    /\ Fed
    /\ writer.n = 3
    /\ writer.pc = "closed"
    /\ procs[1].pc = "returned"
    /\ procs[1].outBuf = <<"C:ALPHA", "C:BETA", "C:GAMMA">>

---------------------------------------------------------------------------
(* The result of Pipeline.Run and of a misconfigured Process.Run. *)

\* The stages whose Run returned an error.
StageFailures == {i \in DOMAIN procs : procs[i].result.Err # ""}

Count(errs, e) == Cardinality({k \in 1..Len(errs) : errs[k] = e})

\* The joined error holds the error of every failing stage, once each.
JoinsAll(errs) ==
    /\ Len(errs) = Cardinality(StageFailures)
    /\ \A i \in StageFailures :
          Count(errs, procs[i].result.Err)
              = Cardinality({j \in StageFailures :
                                procs[j].result.Err = procs[i].result.Err})

Aggregated ==
    IF Len(pl.stages) = 0
    THEN /\ pl.result.ExitCode = 1
         /\ pl.result.Err = <<"pipeline: no stages">>
         /\ procs = <<>>
    ELSE IF StageFailures # {}
    THEN pl.result.ExitCode = 1 /\ JoinsAll(pl.result.Err)
    ELSE pl.result.ExitCode = 0 /\ pl.result.Err = <<>>

\* C9: the result of Pipeline.Run is: with no stages, exit code 1 and the
\* "no stages" error, nothing run; else, with a stage that returned an
\* error, exit code 1 and the errors of all failing stages joined; else exit
\* code 0 and no error.
C9_AggregateResult == pl.pc = "returned" => Aggregated

\* C9 as the code has it: the above for a runtime that is not nil; with a
\* nil runtime, exit code 1 and the "runtime is nil" error whatever the
\* stages, nothing run.
C9_AggregateResultWithRuntime ==
    pl.pc = "returned" =>
        IF pl.nilRt
        THEN /\ pl.result.ExitCode = 1
             /\ pl.result.Err = <<"pipeline: runtime is nil">>
             /\ procs = <<>>
        ELSE Aggregated

C9_TwoStagesFailed ==
    /\ pl.pc = "returned"
    /\ Cardinality(StageFailures) = 2
    /\ Len(pl.result.Err) = 2

\* Stage i has no runner, it returned, and the next stage waits for the
\* end of the input that stage i was to write.
WaitsForMisconfigured(i) ==
    /\ i < Len(procs)
    /\ procs[i].runner.kind = "nil"
    /\ procs[i].pc = "returned"
    /\ procs[i + 1].pc = "running"
    /\ Reads(procs[i + 1])

\* C10: Process.Run with a nil runner or a nil runtime calls no runner and
\* returns a result with an error and exit code 1; a pipeline with such a
\* stage returns a result that reports the error.
C10_MisconfiguredReported ==
    /\ \A i \in DOMAIN procs :
          (procs[i].pc = "returned" /\ (procs[i].runner.kind = "nil" \/ pl.nilRt))
              => /\ ~procs[i].invoked
                 /\ procs[i].result.Err # ""
                 /\ procs[i].result.ExitCode = 1
    /\ (pl.pc = "returned" /\ \E i \in DOMAIN pl.stages : pl.stages[i].kind = "nil")
          => (pl.result.Err # <<>> /\ pl.result.ExitCode = 1)
    /\ ~(Deadlocked /\ \E i \in DOMAIN procs : WaitsForMisconfigured(i))

---------------------------------------------------------------------------
(* Atomicity of AtomicWriteFile at its destination. *)

\* The destination holds what it held when the call began.
DestIsPrior ==
    /\ NodeAt(host, last.dest) = last.prior
    /\ ReadAt(host, last.dest) = last.priorRead

\* The destination holds the complete new content.
DestIsNew ==
    /\ NodeAt(host, last.dest) = FileNode(last.data)
    /\ ReadAt(host, last.dest) = [err |-> "", data |-> last.data]

\* The temporary file of the call exists.
TempExists == last.tmp # NoPath /\ NodeAt(host, last.tmp) # NoNode

\* C11: at every point of a call of AtomicWriteFile and after its return,
\* with or without an error at mkdir, temp creation, write, close or
\* rename, the destination holds its prior content or the complete new
\* content; when the call returned an error the temporary file it made is
\* gone, and when it returned none the destination holds the new content.
C11_AtomicAtDestination ==
    (last.op = "AtomicWriteFile" /\ last.dest # NoPath) =>
        /\ DestIsPrior \/ DestIsNew
        /\ (last.pc = "returned" /\ last.err # "") => ~TempExists
        /\ (last.pc = "returned" /\ last.err = "") => (DestIsNew /\ ~TempExists)

\* A call that replaces the file /f failed in the middle of its Write and
\* returned.
C11_WriteFailedMidway ==
    /\ last.op = "AtomicWriteFile"
    /\ last.pc = "returned"
    /\ last.err = "atomic write: write temp file"
    /\ last.prior = FileNode("in")
    /\ last.data = "new"
    /\ DestIsPrior

---------------------------------------------------------------------------
(* ResolvePath with symlink following in a jail. *)

\* The last call was ResolvePath(path, true) on a jailed filesystem and the
\* symlinks of its path resolved to a host path.
FollowedInJail ==
    /\ last.op = "ResolvePathFollow"
    /\ last.jail # EmptyStr
    /\ last.touched # {}

\* C12: in a jailed filesystem, ResolvePath with symlink following returns
\* ErrEscapeAttempt and no path when the symlinks resolve to a host path
\* outside the jail, and the virtual path of the target when they resolve
\* to a host path inside the jail.
C12_FollowedTargetChecked ==
    FollowedInJail =>
        \A q \in last.touched :
            IF Under(last.jail, q)
            THEN last.err = "" /\ hostPath(fs, last.path) = q
            ELSE last.err = ErrEscapeAttempt /\ last.path = NoPath

---------------------------------------------------------------------------
(* What OsFS.Setwd commits. *)

\* What os.Stat finds at the host path p: nothing, a directory, something
\* else, or an error other than "does not exist".
StatKind(h, p) ==
    IF osStat(h, p, TRUE).err = "ENOENT" THEN "none"
    ELSE IF osStat(h, p, TRUE).err # "" THEN "error"
    ELSE IF osStat(h, p, TRUE).data = "dir" THEN "dir"
    ELSE "other"

\* Setwd(p), whose argument resolved to the target r.val, did what its
\* contract says.
SetwdAsStat(r, kind) ==
    IF kind \in {"none", "dir"}
    THEN /\ last'.err = ""
         /\ OsFS_Getwd(fs').val = r.val
    ELSE /\ last'.err # ""
         /\ kind = "other" => last'.err = "not a directory"
         /\ OsFS_Getwd(fs').val = OsFS_Getwd(fs).val

SetwdContract(r) ==
    r.err = "" => SetwdAsStat(r, StatKind(host, hostPath(r.fs, r.val)))

\* C13: OsFS.Setwd commits the resolved target as the working directory
\* when the host path of the target does not exist or is a directory; when
\* it exists and is not a directory ("not a directory"), or os.Stat fails
\* for another reason, Setwd returns an error and the working directory is
\* what it was.
C13_SetwdCommitsDirectories ==
    [][\A p \in SetwdInputs :
          (last'.op = "Setwd" /\ Setwd(p))
              => SetwdContract(resolveVirtual(host, fs, p, FALSE))]_vars

\* A Setwd on a file was refused and the working directory is what it was.
C13_SetwdOnFileRefused ==
    /\ last.op = "Setwd"
    /\ last.err = "not a directory"
    /\ fs.wd = last.wd0

---------------------------------------------------------------------------
(* A failing Runtime.Setwd. *)

\* C14: when Runtime.Setwd returned an error, the working directories that
\* the runtime, its filesystem and its environment report are the ones they
\* reported before the call.
C14_FailedSetwdChangesNothing ==
    (last.op = "Setwd" /\ last.err # "") =>
        /\ rt.wd = last.rtwd0
        /\ fs.wd = last.fswd0
        /\ env.pwd = last.envwd0

---------------------------------------------------------------------------
(* The deadline of RunWithTimeout. *)

\* A stage's runner was called and has not returned.
StageStillRunning == \E i \in DOMAIN procs : procs[i].pc = "running"

\* C15: once the deadline of RunWithTimeout has passed, the pipeline stops
\* waiting and returns its result although a stage's runner ignores the
\* cancellation and has not returned: it is never left waiting for good.
C15_TimeoutStopsWaiting == ~(pl.expired /\ StageStillRunning /\ Deadlocked)

---------------------------------------------------------------------------
(* C16: a stage that wraps a process keeps the streams the process was    *)
(* configured with.                                                       *)

\* The process that stage i wraps, as the caller configured it.
Configured(i) == pl.stages[i].process

\* Process i reads the reader and writes to the writer or the buffer that
\* it was configured with.
KeepsStreams(i) ==
    /\ Configured(i).in # NoPipe => procs[i].in = Configured(i).in
    /\ Configured(i).outW => procs[i].sink = "explicit"
    /\ (Configured(i).hasOutBuf /\ ~Configured(i).outW) => procs[i].sink = "captured"

\* C16: at every position of a pipeline, a stage that wraps a process
\* already built runs it with the streams it was configured with: its
\* explicit stdin reader, its explicit stdout writer, and the buffer its
\* CaptureStdout returned are what its runner reads and writes.
C16_PrebuiltKeepsStreams ==
    \A i \in DOMAIN pl.stages :
        (/\ i \in DOMAIN procs
         /\ "process" \in DOMAIN pl.stages[i]
         /\ procs[i].invoked) => KeepsStreams(i)

---------------------------------------------------------------------------
(* C17: the pipeline's result holds what the last stage wrote.            *)

\* The pipeline has returned from a run of its stages, the last of which
\* has no explicit writer.
RanToBuffer ==
    /\ pl.pc = "returned"
    /\ procs # <<>>
    /\ ~procs[Len(procs)].outW

\* C17: when the last stage has no explicit output writer, result.Stdout
\* is exactly the bytes that stage wrote, whether or not CaptureStdout of
\* the pipeline was called before Run; the buffer CaptureStdout returned
\* is the pipeline's buffer and holds the same bytes.
C17_StdoutIsLastStageOutput ==
    RanToBuffer =>
        /\ pl.result.Stdout = procs[Len(procs)].written
        /\ pl.captured => PipelineOut(procs) = pl.result.Stdout

\* A captured pipeline has returned the line that its last stage, a process
\* with a capture buffer of its own, wrote.
C17_CapturedLineReturned ==
    /\ RanToBuffer
    /\ pl.captured
    /\ "process" \in DOMAIN pl.stages[Len(procs)]
    /\ pl.result.Stdout # <<>>

---------------------------------------------------------------------------
(* C18: RemoveJailPrefix undoes EnsureInJail.                             *)

\* A virtual path: absolute and clean.
IsVirtual(p) == IsAbs(p) /\ Clean(p) = p

\* RemoveJailPrefix has returned for what EnsureInJail made of a virtual
\* path under a jail that is not empty.
RoundTripped ==
    /\ last.op = "RemoveJailPrefix"
    /\ last.from = "EnsureInJail"
    /\ last.jailPath # EmptyStr
    /\ IsVirtual(last.path)

\* C18: for a jail J that is not empty and a virtual path V,
\* RemoveJailPrefix(J, EnsureInJail(J, V)) is V.
C18_RoundTrip == RoundTripped => last.val = last.path

---------------------------------------------------------------------------
(* C19: resolving a resolved path gives it back.                          *)

\* The last call was a ResolvePath of the runtime or of its filesystem
\* that returned a path.
Resolved ==
    /\ last.op \in {"ResolvePath", "FS.ResolvePath"}
    /\ last.err = ""

\* The same call, without symlink following, on the path returned.
ResolvedAgain ==
    IF last.op = "ResolvePath"
    THEN Runtime_ResolvePath(host, World(rt, env, fs), last.val, FALSE)
    ELSE Runtime_FsResolvePath(host, World(rt, env, fs), last.val, FALSE)

\* C19: with the working directory and the jail as they are, resolving
\* without symlink following the path that Runtime.ResolvePath or
\* OsFS.ResolvePath returned succeeds and returns that path.
C19_ResolveIdempotent ==
    Resolved => (ResolvedAgain.err = "" /\ ResolvedAgain.val = last.val)

\* A jailed runtime in a working directory below the root resolved a path
\* to one that lies deeper than the root.
C19_ResolvedBelowRoot ==
    /\ Resolved
    /\ rt.jail # EmptyStr
    /\ rt.wd # Root
    /\ Len(last.val) > 2

---------------------------------------------------------------------------
(* C20: IsInJail tells the paths under the jail from the others.          *)

\* The relative path begins with the parent directory; no relative path
\* (filepath.Rel failed) counts as outside.
BeginsWithParent(r) == IF r.err THEN TRUE ELSE r.path[1] = ".."

\* What IsInJail is to return.
InsideBoundary(j, p) ==
    IF j = EmptyStr \/ ~IsAbs(p) THEN TRUE
    ELSE ~BeginsWithParent(Rel(j, p))

\* C20: IsInJail(J, P) is true when J is empty or P is relative; otherwise
\* it is true exactly when the path of Clean(P) relative to Clean(J) does
\* not begin with the segment "..", so J/..d is inside.
C20_InsideIffNoParentSegment ==
    last.op = "IsInJail" => last.inside = InsideBoundary(last.jailPath, last.path)

---------------------------------------------------------------------------
(* C21: EnsureInJail puts every path under the jail.                      *)

\* What EnsureInJail is to return under the clean jail j for the clean
\* path p: p when it is absolute and under j, else p joined under j.
Ensured(j, p) == IF IsAbs(p) /\ InsideBoundary(j, p) THEN p ELSE Join(j, p)

\* EnsureInJail has returned under an absolute jail.
EnsuredInJail ==
    /\ last.op = "EnsureInJail"
    /\ IsAbs(last.jailPath)

\* C21: under a jail J that is not empty, EnsureInJail(J, p) is the cleaned
\* p when p is inside the boundary and p joined under J when p is relative
\* or absolute and outside; the result is a host path inside J.
C21_EnsureInJailResult ==
    EnsuredInJail =>
        /\ last.val = Ensured(Clean(last.jailPath), Clean(last.path))
        /\ IsAbs(last.val)
        /\ InsideBoundary(last.jailPath, last.val)

---------------------------------------------------------------------------
(* C22: a jailed runtime clamps a path at the virtual root.               *)

\* What ResolvePath is to return for rel: the part after the ".." for a
\* path that climbs above the root, the path itself for an absolute one.
Clamped(rel) == IF IsAbs(rel) THEN rel ELSE Clean(Root \o rel)

ClampInputs == {AboveRoot, <<"", "x", "y">>, <<"", "..d">>}

\* The call returned no error and the path val.
Returns(val) == last'.err = "" /\ last'.val = val

\* C22: in a jailed runtime, ResolvePath without symlink following of a
\* relative path with more ".." than the working directory has components
\* returns, with no error, the path clamped at the virtual root; of an
\* absolute virtual path, that path.
C22_ClampedAtRoot ==
    [][\A rel \in ClampInputs :
          (rt.jail # EmptyStr /\ RtResolvePath(rel, FALSE)) => Returns(Clamped(rel))]_vars

---------------------------------------------------------------------------
(* C23: the stages of a pipeline run concurrently and Run waits for all   *)
(* of them.                                                               *)

\* Pipeline.Run has started the stages and stage i has not begun its Run.
NotStarted(i) == pl.pc = "waiting" /\ i \in DOMAIN procs /\ procs[i].pc = "spawned"

\* C23: a stage that has not begun can begin whatever the other stages are
\* doing, and Pipeline.Run has returned a result of its stages only when
\* the Run of every stage has returned.
C23_ConcurrentAndJoined ==
    /\ \A i \in 1..MaxStages : NotStarted(i) => ENABLED Run(i)
    /\ (pl.pc = "returned" /\ procs # <<>>) =>
           \A i \in DOMAIN procs : procs[i].pc = "returned"

\* Two stages are running at once, the second reading what the first
\* writes, and the pipeline is waiting for them.
C23_BothRunning ==
    /\ pl.pc = "waiting"
    /\ Len(procs) = 2
    /\ procs[1].pc = "running" /\ procs[1].written # <<>>
    /\ procs[2].pc = "running" /\ procs[2].seen # <<>>

---------------------------------------------------------------------------
(* C24: the streams a process runs with.                                  *)

\* The output of the process p by the order of the claim: the explicit
\* writer, else the capture buffer, else the pipe, else a new buffer.
OutputByPriority(p) ==
    IF p.outW THEN "explicit"
    ELSE IF p.hasOutBuf THEN "buffer"
    ELSE IF p.stdoutW # NoPipe THEN "pipe"
    ELSE "new buffer"

\* What the process q, running, writes to.
OutputKind(q) ==
    IF q.sink \in {"captured", "pipeline"} THEN "buffer"
    ELSE IF q.sink = "own" THEN "new buffer"
    ELSE q.sink

\* Process i, which was p, reads the explicit reader of p or else the pipe
\* made for it, and writes to the output the order gives.
StreamsByPriority(p, i) ==
    /\ procs'[i].in = IF p.in # NoPipe THEN p.in ELSE StdinPipeOf(i)
    /\ p.in = NoPipe => pipes'[StdinPipeOf(i)].made
    /\ OutputKind(procs'[i]) = OutputByPriority(p)
    /\ (OutputByPriority(p) = "pipe") = (procs'[i].out # NoPipe)
    /\ OutputByPriority(p) = "new buffer" => (procs'[i].hasOutBuf /\ ~p.hasOutBuf)

---------------------------------------------------------------------------
(* C25: a Run that returns closes the pipes of its process.               *)

\* The Run of process i has returned after it invoked the runner.
RanAndReturned(i) ==
    i \in DOMAIN procs /\ procs[i].pc = "returned" /\ procs[i].invoked

\* The write end is closed and no Write is blocked on it.
WriteEndClosed(id) == id # NoPipe => (pipes[id].wclosed /\ pipes[id].pending = <<>>)

\* Process i is a runner that reads the stdout pipe of the process before
\* it and has not seen its end.
ReadsUpstream(i) ==
    /\ i \in DOMAIN procs /\ i > 1
    /\ Running(i) /\ Reads(procs[i])
    /\ procs[i].in = procs[i - 1].stdoutW

---------------------------------------------------------------------------
(* C26: the capture buffers are read and written under the mutex.  The    *)
(* parts of Run that hold p.mu are single steps of the model, so no mutex *)
(* is held while a runner executes or a pipe blocks.                      *)

\* C26: every read and every write of the capture buffer of a process, the
\* writes of its running runner included, is made with the mutex of the
\* process held.
C26_BufferUnderMutex ==
    \A i \in DOMAIN procs : procs[i].bufAccess # "unlocked"

---------------------------------------------------------------------------
(* C27: the working directory is an absolute, clean virtual path inside   *)
(* the jail.                                                              *)

\* Under the jail j, the host translation of the virtual path p lies under
\* j.
TranslatedInside(j, p) ==
    j # EmptyStr => InsideBoundary(j, Clean(Join(j, p)))

\* What Getwd of the filesystem returns is a virtual path inside its jail.
FsWdVirtual ==
    /\ OsFS_Getwd(fs).err = ""
    /\ IsVirtual(OsFS_Getwd(fs).val)
    /\ TranslatedInside(fs.jail, OsFS_Getwd(fs).val)

\* What Getwd of the runtime returns is a virtual path inside its jail.
RtWdVirtual ==
    /\ Runtime_GetwdVal(host, World(rt, env, fs)).err = ""
    /\ IsVirtual(Runtime_GetwdVal(host, World(rt, env, fs)).val)
    /\ TranslatedInside(rt.jail, Runtime_GetwdVal(host, World(rt, env, fs)).val)

\* C27: in every state of a filesystem and of a runtime built on it, Getwd
\* returns an absolute, cleaned virtual path, and under a jail the host
\* translation of that path lies inside the jail.
C27_WdAbsoluteCleanInside ==
    FsWdVirtual /\ (rt # Unused => RtWdVirtual)

\* A jailed runtime has changed its working directory to one below the
\* root, and its filesystem reports the same one.
C27_JailedBelowRoot ==
    /\ rt # Unused
    /\ rt.jail # EmptyStr
    /\ last.op = "Setwd" /\ last.err = ""
    /\ rt.wd # Root /\ rt.wd # last.rtwd0
    /\ fs.wd = rt.wd

---------------------------------------------------------------------------
(* C28: every return of Process.Run closes the pipes of its process.      *)

\* The Run of process i has returned.
RunReturned(i) == i \in DOMAIN procs /\ procs[i].pc = "returned"

\* C28: when Process.Run has returned, on the early returns for a nil
\* runner or a nil runtime as well, the write ends of the pipes the process
\* owns are closed, so that the stage that reads its StdoutPipe can read
\* the end of the stream.
C28_EveryReturnCloses ==
    \A i \in 1..MaxStages :
        RunReturned(i) =>
            /\ WriteEndClosed(procs[i].stdoutW)
            /\ WriteEndClosed(procs[i].stdinW)
            /\ ReadsUpstream(i + 1) => ENABLED Read(i + 1)

---------------------------------------------------------------------------
(* C29: Process.Close ends the input whenever it is called.               *)

\* The task that feeds the process has called Close, and the runner, which
\* reads its input to the end, waits for input that nothing will bring or
\* end.
ClosedButWaiting ==
    /\ pl.pc = "direct"
    /\ writer.pc = "closed"
    /\ procs[1].pc = "running"
    /\ Reads(procs[1])
    /\ ~ENABLED PipeNext

\* C29: once Process.Close has been called, before or after the input pipe
\* was made, a runner that reads its input to the end reads the end of the
\* stream: it is never left waiting.
C29_CloseEndsInput == ~ClosedButWaiting

---------------------------------------------------------------------------
(* C30: the exit code of a pipeline comes from the errors of its stages.  *)

\* Pipeline.Run has returned a result of its stages.
StagesReturned == pl.pc = "returned" /\ procs # <<>>

\* A stage returned an error.
StageFailed == \E i \in DOMAIN procs : procs[i].result.Err # ""

\* C30: the exit code of Pipeline.Run is 0 or 1; it is 1 exactly when a
\* stage returned an error: with no stage error the result has exit code 0
\* and no error, whatever exit codes the runners returned.
C30_ExitCodeFromErrors ==
    /\ pl.pc = "returned" => pl.result.ExitCode \in {0, 1}
    /\ StagesReturned =>
          /\ (pl.result.ExitCode = 1) = StageFailed
          /\ (pl.result.Err # <<>>) = StageFailed

\* A runner returned the exit code 2 with no error and the pipeline
\* returned the exit code 0 with no error.
C30_NonZeroExitIgnored ==
    /\ StagesReturned
    /\ \E i \in DOMAIN procs : procs[i].result.ExitCode = 2 /\ procs[i].result.Err = ""
    /\ pl.result.ExitCode = 0
    /\ pl.result.Err = <<>>

=============================================================================
